---- MODULE Spec2Model ----
(***************************************************************************)
(* Model of the syslog engine of mxmauro/logger (engines/syslog): the      *)
(* bounded message queue, the wakeup event, the connection manager, the    *)
(* messenger worker goroutine and Destroy with its shutdown flush.         *)
(*                                                                         *)
(* Every container/list call (Len, Front, Remove, PushBack), every mutex   *)
(* operation, every dial and every network write is one step, taken in     *)
(* the order of the source.  queueMessage and dequeueMessage take lg.mtx;  *)
(* flushQueue touches the queue without it, exactly as in the source.      *)
(***************************************************************************)
EXTENDS Integers, Sequences, FiniteSets, TLC

\* ---------------------------------------------------------------- bounds
\* Total number of per-level calls (messages) made by all producers.
MaxMsgs == 3

\* opts.MaxMessageQueueSize as configured for the modelled engine.
maxQueueSize == 1

\* ------------------------------------------------------------- processes
Producers == {"p1", "p2"}
Worker == "worker"
Destroyers == {"d1", "d2"}
Senders == {Worker} \cup Destroyers
Procs == Producers \cup Senders

Free == "free"
NoConn == 0
NoMsg == 0

VARIABLES
    pc,          \* position of every goroutine
    queue,       \* lg.queue: the elements front to back (element = its message)
    mtx,         \* lg.mtx: its holder, or Free
    ev,          \* lg.queueAvailEv: TRUE when the auto-reset event is signalled
    cancelled,   \* lg.workerCtx is done
    once,        \* lg.shutdownOnce: "new", "running", "done"
    conn,        \* lg.conn: a socket, or NoConn (nil)
    open,        \* sockets that were dialled and not closed yet
    net,         \* the collector: "up" (dials succeed) or "down"
    expired,     \* the deadline of flushQueue's context has passed
    msg,         \* per goroutine: the message it enqueues / dequeued / sends
    elem,        \* per producer: the element returned by Front() for eviction
    err,         \* per sender: the error writeBytes is returning
    nextMsg,     \* number of messages created so far
    enqueued,    \* history: messages in the order of their PushBack
    dequeued,    \* history: messages taken by dequeueMessage / flushQueue
    sent,        \* history: messages written successfully, in write order
    ran,         \* history: how often each step of Destroy's body has run
    flushDials,  \* history: dials made by flushQueue
    closedTwice  \* history: Close was called on a socket already closed

\* The syslog engine's message formatter (the per-level calls and writeString
\* up to the call of queueMessage), taken on its own.
VARIABLES
    useTcp,      \* lg.useTcp
    useRFC5424,  \* lg.useRFC5424
    call,        \* the last per-level call: its level, message and flag
    payload      \* the string that call handed to queueMessage

syslogVars == <<pc, queue, mtx, ev, cancelled, once, conn, open, net, expired,
                msg, elem, err, nextMsg, enqueued, dequeued, sent, ran,
                flushDials, closedTwice>>

formatVars == <<useTcp, useRFC5424, call, payload>>

\* The file engine (engines/file).
VARIABLES
    fd,                    \* lg.fd: the name of the open file, or NoFile (nil)
    daysToKeep,            \* lg.daysToKeep
    maxFileSize,           \* lg.maxFileSize
    maxFileVaultSize,      \* lg.maxFileVaultSize
    subFileIndex,          \* lg.subFileIndex
    dayOfFile,             \* lg.dayOfFile
    currentFileSize,       \* lg.currentFileSize
    currentFileVaultSize,  \* lg.currentFileVaultSize
    disk,                  \* lg.directory: its .log files in listing order
    clock,                 \* the date time.Now() gives
    writes,                \* number of write calls made so far
    last,                  \* history: the last call and how it went
    maxLen,                \* history: longest line written so far
    lastPurge              \* history: the last run of purgeFileVault

fileCfg == <<daysToKeep, maxFileSize, maxFileVaultSize>>

fileVars == <<fd, fileCfg, subFileIndex, dayOfFile, currentFileSize,
              currentFileVaultSize, disk, clock, writes, last, maxLen,
              lastPurge>>

\* Everything that is not state of the syslog engine's queue and worker.
\* The Logger (package logger) and the callers of the file engine taken step
\* by step.
VARIABLES
    logger,      \* the Logger's fields and the outcome of its last call
    fileLock     \* the file engine's lg.mtx, its callers and what they appended

otherVars == <<formatVars, fileVars, logger, fileLock>>

vars == <<syslogVars, otherVars>>

NoCall == [level |-> "none"]

NoLogger == [logged |-> "none"]

NoLock == [mtx |-> "none"]

\* A file name: the date formatted into it and the sub-index (0 when the
\* name carries none).  Files the engine did not create have date 0.
NoFile == [date |-> 0, idx |-> 0]

NoPurge == [ran |-> FALSE]

NoWrite == [op |-> "none"]

DestroySteps == {"cancel", "wait", "flush", "disconnect"}

\* ------------------------------------------------------------ list helpers
\* container/list: Front() of an empty list is nil.
Front(q) == IF Len(q) = 0 THEN NoMsg ELSE Head(q)

\* container/list: Remove(e) unlinks e only if e is still in the list.
Remove(q, e) == SelectSeq(q, LAMBDA x : x # e)

PushBack(q, m) == Append(q, m)

\* ---------------------------------------------------------- wakeup event
\* resetevent.AutoResetEvent, a single-slot event: Set() leaves it signalled
\* however often it is called; a receive from WaitCh() is possible only
\* while it is signalled and resets it.
AutoResetEvent_Set(e) == TRUE

AutoResetEvent_Ready(e) == e

\* Variant of AutoResetEvent_Receive that leaves the event signalled.
AutoResetEvent_ReceiveKeep(e) == e

AutoResetEvent_Receive(e) == FALSE

\* ------------------------------------------------------------------- Init
\* State after NewEngine: empty queue, no connection, worker started.
InitSyslog ==
    /\ pc = [p \in Procs |-> IF p = Worker THEN "select" ELSE "idle"]
    /\ queue = <<>>
    /\ mtx = Free
    /\ ev = FALSE
    /\ cancelled = FALSE
    /\ once = "new"
    /\ conn = NoConn
    /\ open = {}
    /\ net \in {"up", "down"}
    /\ expired = FALSE
    /\ msg = [p \in Procs |-> NoMsg]
    /\ elem = [p \in Producers |-> NoMsg]
    /\ err = [s \in Senders |-> "nil"]
    /\ nextMsg = 0
    /\ enqueued = <<>>
    /\ dequeued = <<>>
    /\ sent = <<>>
    /\ ran = [s \in DestroySteps |-> 0]
    /\ flushDials = 0
    /\ closedTwice = FALSE

\* The formatter taken on its own is not part of this engine's runs.
FormatUnused ==
    /\ useTcp = FALSE /\ useRFC5424 = FALSE
    /\ call = NoCall /\ payload = <<>>

\* Neither is the file engine.
FileUnused ==
    /\ fd = NoFile
    /\ daysToKeep = 0 /\ maxFileSize = 0 /\ maxFileVaultSize = 0
    /\ subFileIndex = 0 /\ dayOfFile = -1
    /\ currentFileSize = 0 /\ currentFileVaultSize = 0
    /\ disk = <<>> /\ clock = 0 /\ writes = 0
    /\ last = NoWrite /\ maxLen = 0 /\ lastPurge = NoPurge

\* The Logger taken on its own is not part of an engine's runs.
LoggerUnused == logger = NoLogger

\* Nor are the callers of the file engine, unless taken step by step.
LockUnused == fileLock = NoLock

Init == InitSyslog /\ FormatUnused /\ FileUnused /\ LoggerUnused /\ LockUnused

\* -------------------------------------------------------------- producers
\* A per-level call (Success/Error/Warning/Info/Debug -> writeString): the
\* message is formatted on the caller's goroutine and handed to queueMessage.
writeString(p) ==
    /\ pc[p] = "idle"
    /\ nextMsg < MaxMsgs
    /\ nextMsg' = nextMsg + 1
    /\ msg' = [msg EXCEPT ![p] = nextMsg + 1]
    /\ pc' = [pc EXCEPT ![p] = "q_lock"]
    /\ UNCHANGED otherVars
    /\ UNCHANGED <<queue, mtx, ev, cancelled, once, conn, open, net, expired,
                   elem, err, enqueued, dequeued, sent, ran, flushDials,
                   closedTwice>>

\* queueMessage: lg.mtx.Lock(), then the capacity test on lg.queue.Len().
queueMessage_Lock(p) ==
    /\ pc[p] = "q_lock"
    /\ mtx = Free
    /\ mtx' = p
    /\ pc' = [pc EXCEPT ![p] = IF Len(queue) > maxQueueSize THEN "q_front"
                                                              ELSE "q_push"]
    /\ UNCHANGED otherVars
    /\ UNCHANGED <<queue, ev, cancelled, once, conn, open, net, expired, msg,
                   elem, err, nextMsg, enqueued, dequeued, sent, ran,
                   flushDials, closedTwice>>

\* queueMessage: elem := lg.queue.Front()
queueMessage_Front(p) ==
    /\ pc[p] = "q_front"
    /\ elem' = [elem EXCEPT ![p] = Front(queue)]
    /\ pc' = [pc EXCEPT ![p] = IF Front(queue) # NoMsg THEN "q_remove"
                                                        ELSE "q_push"]
    /\ UNCHANGED otherVars
    /\ UNCHANGED <<queue, mtx, ev, cancelled, once, conn, open, net, expired,
                   msg, err, nextMsg, enqueued, dequeued, sent, ran,
                   flushDials, closedTwice>>

\* queueMessage: lg.queue.Remove(elem)
queueMessage_Remove(p) ==
    /\ pc[p] = "q_remove"
    /\ queue' = Remove(queue, elem[p])
    /\ elem' = [elem EXCEPT ![p] = NoMsg]
    /\ pc' = [pc EXCEPT ![p] = "q_push"]
    /\ UNCHANGED otherVars
    /\ UNCHANGED <<mtx, ev, cancelled, once, conn, open, net, expired, msg,
                   err, nextMsg, enqueued, dequeued, sent, ran, flushDials,
                   closedTwice>>

\* queueMessage: lg.queue.PushBack(msg)
queueMessage_PushBack(p) ==
    /\ pc[p] = "q_push"
    /\ queue' = PushBack(queue, msg[p])
    /\ enqueued' = Append(enqueued, msg[p])
    /\ pc' = [pc EXCEPT ![p] = "q_set"]
    /\ UNCHANGED otherVars
    /\ UNCHANGED <<mtx, ev, cancelled, once, conn, open, net, expired, msg,
                   elem, err, nextMsg, dequeued, sent, ran, flushDials,
                   closedTwice>>

\* queueMessage: lg.queueAvailEv.Set()
queueMessage_Set(p) ==
    /\ pc[p] = "q_set"
    /\ ev' = AutoResetEvent_Set(ev)
    /\ pc' = [pc EXCEPT ![p] = "q_unlock"]
    /\ UNCHANGED otherVars
    /\ UNCHANGED <<queue, mtx, cancelled, once, conn, open, net, expired, msg,
                   elem, err, nextMsg, enqueued, dequeued, sent, ran,
                   flushDials, closedTwice>>

\* queueMessage: the deferred lg.mtx.Unlock(); the per-level call returns.
queueMessage_Unlock(p) ==
    /\ pc[p] = "q_unlock"
    /\ mtx' = Free
    /\ msg' = [msg EXCEPT ![p] = NoMsg]
    /\ pc' = [pc EXCEPT ![p] = "idle"]
    /\ UNCHANGED otherVars
    /\ UNCHANGED <<queue, ev, cancelled, once, conn, open, net, expired, elem,
                   err, nextMsg, enqueued, dequeued, sent, ran, flushDials,
                   closedTwice>>

queueMessage(p) ==
    \/ queueMessage_Lock(p)
    \/ queueMessage_Front(p)
    \/ queueMessage_Remove(p)
    \/ queueMessage_PushBack(p)
    \/ queueMessage_Set(p)
    \/ queueMessage_Unlock(p)

\* ------------------------------------------------------ connection manager
\* disconnect: "if lg.conn != nil { lg.conn.Close(); lg.conn = nil }".
disconnect ==
    IF conn # NoConn
    THEN /\ conn' = NoConn
         /\ open' = open \ {conn}
         /\ closedTwice' = (closedTwice \/ conn \notin open)
    ELSE UNCHANGED <<conn, open, closedTwice>>

\* A socket identity not in use: the one a successful dial returns.
NewSock == CHOOSE s \in 1..(Cardinality(open) + 2) : s \notin open /\ s # conn

\* The context a sender dials with: the worker uses lg.workerCtx, flushQueue
\* a context with the flushTimeout deadline.
ctxErr(s) ==
    IF s = Worker
    THEN IF cancelled THEN "canceled" ELSE "nil"
    ELSE IF expired THEN "deadline" ELSE "nil"

\* writeBytes: "if lg.conn != nil { Write; if err == nil return nil }".
writeBytes_Write(s) ==
    /\ pc[s] = "wb_write"
    /\ \/ /\ conn # NoConn /\ conn \in open          \* the write succeeds
          /\ sent' = Append(sent, msg[s])
          /\ err' = [err EXCEPT ![s] = "nil"]
          /\ pc' = [pc EXCEPT ![s] = "wb_ret"]
       \/ /\ conn # NoConn                           \* the write fails
          /\ pc' = [pc EXCEPT ![s] = "wb_connect"]
          /\ UNCHANGED <<sent, err>>
       \/ /\ conn = NoConn                           \* not connected
          /\ pc' = [pc EXCEPT ![s] = "wb_connect"]
          /\ UNCHANGED <<sent, err>>
    /\ UNCHANGED otherVars
    /\ UNCHANGED <<queue, mtx, ev, cancelled, once, conn, open, net, expired,
                   msg, elem, nextMsg, enqueued, dequeued, ran, flushDials,
                   closedTwice>>

\* Variant of connect_Disconnect that keeps the old connection.
connect_NoDisconnect(s) ==
    /\ pc[s] = "wb_connect"
    /\ pc' = [pc EXCEPT ![s] = "wb_dial"]
    /\ UNCHANGED otherVars
    /\ UNCHANGED <<queue, mtx, ev, cancelled, once, conn, open, net, expired,
                   msg, elem, err, nextMsg, enqueued, dequeued, sent, ran,
                   flushDials, closedTwice>>

\* connect: the leading lg.disconnect().
connect_Disconnect(s) ==
    /\ pc[s] = "wb_connect"
    /\ disconnect
    /\ pc' = [pc EXCEPT ![s] = "wb_dial"]
    /\ UNCHANGED otherVars
    /\ UNCHANGED <<queue, mtx, ev, cancelled, once, net, expired, msg, elem,
                   err, nextMsg, enqueued, dequeued, sent, ran, flushDials>>

\* connect: lg.conn, err = dialer.DialContext(ctx, ...).  The dial fails with
\* the context's error when the context is done, fails with a network error
\* when the collector is down, and otherwise installs a new socket.  A failed
\* dial returns a nil connection.
connect_Dial(s) ==
    /\ pc[s] = "wb_dial"
    /\ IF ctxErr(s) # "nil"
       THEN /\ conn' = NoConn
            /\ err' = [err EXCEPT ![s] = ctxErr(s)]
            /\ pc' = [pc EXCEPT ![s] = "wb_ret"]
            /\ UNCHANGED open
       ELSE IF net = "down"
       THEN /\ conn' = NoConn
            /\ err' = [err EXCEPT ![s] = "neterr"]
            /\ pc' = [pc EXCEPT ![s] = "wb_ret"]
            /\ UNCHANGED open
       ELSE /\ conn' = NewSock
            /\ open' = open \cup {NewSock}
            /\ err' = [err EXCEPT ![s] = "nil"]
            /\ pc' = [pc EXCEPT ![s] = "wb_write2"]
    /\ flushDials' = IF s \in Destroyers THEN flushDials + 1 ELSE flushDials
    /\ UNCHANGED otherVars
    /\ UNCHANGED <<queue, mtx, ev, cancelled, once, net, expired, msg, elem,
                   nextMsg, enqueued, dequeued, sent, ran, closedTwice>>

\* Variant of writeBytes_Retry without lg.disconnect() on failure.
writeBytes_RetryKeep(s) ==
    /\ pc[s] = "wb_write2"
    /\ \/ /\ conn # NoConn /\ conn \in open
          /\ sent' = Append(sent, msg[s])
          /\ err' = [err EXCEPT ![s] = "nil"]
       \/ /\ err' = [err EXCEPT ![s] = "neterr"]
          /\ UNCHANGED sent
    /\ pc' = [pc EXCEPT ![s] = "wb_ret"]
    /\ UNCHANGED otherVars
    /\ UNCHANGED <<queue, mtx, ev, cancelled, once, conn, open, net, expired,
                   msg, elem, nextMsg, enqueued, dequeued, ran, flushDials,
                   closedTwice>>

\* Variant of writeBytes_Retry that connects again when the retried Write
\* fails.
writeBytes_RetryAgain(s) ==
    /\ pc[s] = "wb_write2"
    /\ \/ /\ conn # NoConn /\ conn \in open
          /\ sent' = Append(sent, msg[s])
          /\ err' = [err EXCEPT ![s] = "nil"]
          /\ pc' = [pc EXCEPT ![s] = "wb_ret"]
       \/ /\ err' = [err EXCEPT ![s] = "neterr"]
          /\ pc' = [pc EXCEPT ![s] = "wb_connect"]
          /\ UNCHANGED sent
    /\ UNCHANGED otherVars
    /\ UNCHANGED <<queue, mtx, ev, cancelled, once, conn, open, net, expired,
                   msg, elem, nextMsg, enqueued, dequeued, ran, flushDials,
                   closedTwice>>

\* writeBytes: the retried Write after a successful connect, with
\* lg.disconnect() when it fails.
writeBytes_Retry(s) ==
    /\ pc[s] = "wb_write2"
    /\ \/ /\ conn # NoConn /\ conn \in open
          /\ sent' = Append(sent, msg[s])
          /\ err' = [err EXCEPT ![s] = "nil"]
          /\ UNCHANGED <<conn, open, closedTwice>>
       \/ /\ err' = [err EXCEPT ![s] = "neterr"]
          /\ disconnect
          /\ UNCHANGED sent
    /\ pc' = [pc EXCEPT ![s] = "wb_ret"]
    /\ UNCHANGED otherVars
    /\ UNCHANGED <<queue, mtx, ev, cancelled, once, net, expired, msg, elem,
                   nextMsg, enqueued, dequeued, ran, flushDials>>

\* writeBytes up to the dial: all of it while the collector is unreachable.
writeBytes_Dial(s) ==
    \/ writeBytes_Write(s)
    \/ connect_Disconnect(s)
    \/ connect_Dial(s)

writeBytes(s) ==
    \/ writeBytes_Dial(s)
    \/ writeBytes_Retry(s)

\* ------------------------------------------------------- messenger worker
\* messengerWorker: select, case <-lg.workerCtx.Done(): return (wg.Done()).
messengerWorker_Done ==
    /\ pc[Worker] = "select"
    /\ cancelled
    /\ pc' = [pc EXCEPT ![Worker] = "stopped"]
    /\ UNCHANGED otherVars
    /\ UNCHANGED <<queue, mtx, ev, cancelled, once, conn, open, net, expired,
                   msg, elem, err, nextMsg, enqueued, dequeued, sent, ran,
                   flushDials, closedTwice>>

\* messengerWorker: select, case <-lg.queueAvailEv.WaitCh(): the event is
\* consumed (auto-reset) and the drain loop starts.
messengerWorker_Wake ==
    /\ pc[Worker] = "select"
    /\ AutoResetEvent_Ready(ev)
    /\ ev' = AutoResetEvent_Receive(ev)
    /\ pc' = [pc EXCEPT ![Worker] = "w_lock"]
    /\ UNCHANGED otherVars
    /\ UNCHANGED <<queue, mtx, cancelled, once, conn, open, net, expired, msg,
                   elem, err, nextMsg, enqueued, dequeued, sent, ran,
                   flushDials, closedTwice>>

\* dequeueMessage: lg.mtx.Lock()
dequeueMessage_Lock ==
    /\ pc[Worker] = "w_lock"
    /\ mtx = Free
    /\ mtx' = Worker
    /\ pc' = [pc EXCEPT ![Worker] = "w_deq"]
    /\ UNCHANGED otherVars
    /\ UNCHANGED <<queue, ev, cancelled, once, conn, open, net, expired, msg,
                   elem, err, nextMsg, enqueued, dequeued, sent, ran,
                   flushDials, closedTwice>>

\* Variant of dequeueMessage_Take that takes the newest element (Back).
dequeueMessage_TakeBack ==
    /\ pc[Worker] = "w_deq"
    /\ mtx' = Free
    /\ IF Front(queue) = NoMsg
       THEN /\ pc' = [pc EXCEPT ![Worker] = "select"]
            /\ UNCHANGED <<queue, msg, dequeued>>
       ELSE /\ queue' = Remove(queue, queue[Len(queue)])
            /\ msg' = [msg EXCEPT ![Worker] = queue[Len(queue)]]
            /\ dequeued' = Append(dequeued, queue[Len(queue)])
            /\ pc' = [pc EXCEPT ![Worker] = "wb_write"]
    /\ UNCHANGED otherVars
    /\ UNCHANGED <<ev, cancelled, once, conn, open, net, expired, elem, err,
                   nextMsg, enqueued, sent, ran, flushDials, closedTwice>>

\* Variant of dequeueMessage_Take that returns without Unlock().
dequeueMessage_TakeLocked ==
    /\ pc[Worker] = "w_deq"
    /\ IF Front(queue) = NoMsg
       THEN /\ pc' = [pc EXCEPT ![Worker] = "select"]
            /\ UNCHANGED <<queue, msg, dequeued>>
       ELSE /\ queue' = Remove(queue, Front(queue))
            /\ msg' = [msg EXCEPT ![Worker] = Front(queue)]
            /\ dequeued' = Append(dequeued, Front(queue))
            /\ pc' = [pc EXCEPT ![Worker] = "wb_write"]
    /\ UNCHANGED otherVars
    /\ UNCHANGED <<mtx, ev, cancelled, once, conn, open, net, expired, elem,
                   err, nextMsg, enqueued, sent, ran, flushDials,
                   closedTwice>>

\* dequeueMessage: Front(), Remove() and the deferred Unlock().  An empty
\* queue ends the drain loop (break) and the worker selects again.
dequeueMessage_Take ==
    /\ pc[Worker] = "w_deq"
    /\ mtx' = Free
    /\ IF Front(queue) = NoMsg
       THEN /\ pc' = [pc EXCEPT ![Worker] = "select"]
            /\ UNCHANGED <<queue, msg, dequeued>>
       ELSE /\ queue' = Remove(queue, Front(queue))
            /\ msg' = [msg EXCEPT ![Worker] = Front(queue)]
            /\ dequeued' = Append(dequeued, Front(queue))
            /\ pc' = [pc EXCEPT ![Worker] = "wb_write"]
    /\ UNCHANGED otherVars
    /\ UNCHANGED <<ev, cancelled, once, conn, open, net, expired, elem, err,
                   nextMsg, enqueued, sent, ran, flushDials, closedTwice>>

\* Variant of messengerWorker_Result that returns on every error.
messengerWorker_ResultStop ==
    /\ pc[Worker] = "wb_ret"
    /\ pc' = [pc EXCEPT ![Worker] = IF err[Worker] # "nil" THEN "stopped"
                                                           ELSE "w_lock"]
    /\ msg' = [msg EXCEPT ![Worker] = NoMsg]
    /\ err' = [err EXCEPT ![Worker] = "nil"]
    /\ UNCHANGED otherVars
    /\ UNCHANGED <<queue, mtx, ev, cancelled, once, conn, open, net, expired,
                   elem, nextMsg, enqueued, dequeued, sent, ran, flushDials,
                   closedTwice>>

\* Variant of messengerWorker_Result that waits for the next signal after
\* every message.
messengerWorker_ResultWait ==
    /\ pc[Worker] = "wb_ret"
    /\ pc' = [pc EXCEPT ![Worker] = IF err[Worker] = "canceled" THEN "stopped"
                                                                 ELSE "select"]
    /\ msg' = [msg EXCEPT ![Worker] = NoMsg]
    /\ err' = [err EXCEPT ![Worker] = "nil"]
    /\ UNCHANGED otherVars
    /\ UNCHANGED <<queue, mtx, ev, cancelled, once, conn, open, net, expired,
                   elem, nextMsg, enqueued, dequeued, sent, ran, flushDials,
                   closedTwice>>

\* Variant of messengerWorker_Result that never returns.
messengerWorker_ResultGoOn ==
    /\ pc[Worker] = "wb_ret"
    /\ pc' = [pc EXCEPT ![Worker] = "w_lock"]
    /\ msg' = [msg EXCEPT ![Worker] = NoMsg]
    /\ err' = [err EXCEPT ![Worker] = "nil"]
    /\ UNCHANGED otherVars
    /\ UNCHANGED <<queue, mtx, ev, cancelled, once, conn, open, net, expired,
                   elem, nextMsg, enqueued, dequeued, sent, ran, flushDials,
                   closedTwice>>

\* messengerWorker: "if err != nil && errors.Is(err, context.Canceled) return";
\* any other result continues with the next dequeue.
messengerWorker_Result ==
    /\ pc[Worker] = "wb_ret"
    /\ pc' = [pc EXCEPT ![Worker] = IF err[Worker] = "canceled" THEN "stopped"
                                                                 ELSE "w_lock"]
    /\ msg' = [msg EXCEPT ![Worker] = NoMsg]
    /\ err' = [err EXCEPT ![Worker] = "nil"]
    /\ UNCHANGED otherVars
    /\ UNCHANGED <<queue, mtx, ev, cancelled, once, conn, open, net, expired,
                   elem, nextMsg, enqueued, dequeued, sent, ran, flushDials,
                   closedTwice>>

\* The worker's loop around writeBytes.
messengerWorker_Loop ==
    \/ messengerWorker_Done
    \/ messengerWorker_Wake
    \/ dequeueMessage_Lock
    \/ dequeueMessage_Take
    \/ messengerWorker_Result

messengerWorker ==
    \/ messengerWorker_Loop
    \/ writeBytes(Worker)

\* ----------------------------------------------------------------- Destroy
\* Variant of Destroy_Once without the Once: every caller runs f.
Destroy_NoOnce(d) ==
    /\ pc[d] = "idle"
    /\ once' = "running"
    /\ pc' = [pc EXCEPT ![d] = "d_cancel"]
    /\ UNCHANGED otherVars
    /\ UNCHANGED <<queue, mtx, ev, cancelled, conn, open, net, expired, msg,
                   elem, err, nextMsg, enqueued, dequeued, sent, ran,
                   flushDials, closedTwice>>

\* Destroy: lg.shutdownOnce.Do(f).  The first caller runs f; a caller that
\* arrives while f runs waits for it; a caller that arrives later returns.
Destroy_Once(d) ==
    /\ pc[d] = "idle"
    /\ \/ /\ once = "new"
          /\ once' = "running"
          /\ pc' = [pc EXCEPT ![d] = "d_cancel"]
       \/ /\ once = "running"
          /\ once' = once
          /\ pc' = [pc EXCEPT ![d] = "d_oncewait"]
       \/ /\ once = "done"
          /\ once' = once
          /\ pc' = [pc EXCEPT ![d] = "done"]
    /\ UNCHANGED otherVars
    /\ UNCHANGED <<queue, mtx, ev, cancelled, conn, open, net, expired, msg,
                   elem, err, nextMsg, enqueued, dequeued, sent, ran,
                   flushDials, closedTwice>>

\* Destroy: a caller blocked in shutdownOnce.Do returns when f has returned.
Destroy_OnceWait(d) ==
    /\ pc[d] = "d_oncewait"
    /\ once = "done"
    /\ pc' = [pc EXCEPT ![d] = "done"]
    /\ UNCHANGED otherVars
    /\ UNCHANGED <<queue, mtx, ev, cancelled, once, conn, open, net, expired,
                   msg, elem, err, nextMsg, enqueued, dequeued, sent, ran,
                   flushDials, closedTwice>>

\* Destroy: lg.workerCancelCtx()
Destroy_Cancel(d) ==
    /\ pc[d] = "d_cancel"
    /\ cancelled' = TRUE
    /\ ran' = [ran EXCEPT !["cancel"] = @ + 1]
    /\ pc' = [pc EXCEPT ![d] = "d_wait"]
    /\ UNCHANGED otherVars
    /\ UNCHANGED <<queue, mtx, ev, once, conn, open, net, expired, msg, elem,
                   err, nextMsg, enqueued, dequeued, sent, flushDials,
                   closedTwice>>

\* Variant of Destroy_Wait that does not wait for the worker.
Destroy_NoWait(d) ==
    /\ pc[d] = "d_wait"
    /\ ran' = [ran EXCEPT !["wait"] = @ + 1, !["flush"] = @ + 1]
    /\ expired' = FALSE
    /\ pc' = [pc EXCEPT ![d] = "f_front"]
    /\ UNCHANGED otherVars
    /\ UNCHANGED <<queue, mtx, ev, cancelled, once, conn, open, net, msg,
                   elem, err, nextMsg, enqueued, dequeued, sent, flushDials,
                   closedTwice>>

\* Destroy: lg.wg.Wait() returns once the worker has called wg.Done(); then
\* flushQueue starts and creates its deadline context.
Destroy_Wait(d) ==
    /\ pc[d] = "d_wait"
    /\ pc[Worker] = "stopped"
    /\ ran' = [ran EXCEPT !["wait"] = @ + 1, !["flush"] = @ + 1]
    /\ expired' = FALSE
    /\ pc' = [pc EXCEPT ![d] = "f_front"]
    /\ UNCHANGED otherVars
    /\ UNCHANGED <<queue, mtx, ev, cancelled, once, conn, open, net, msg,
                   elem, err, nextMsg, enqueued, dequeued, sent, flushDials,
                   closedTwice>>

\* flushQueue: elem := lg.queue.Front(), without lg.mtx; nil ends the loop.
flushQueue_Front(d) ==
    /\ pc[d] = "f_front"
    /\ msg' = [msg EXCEPT ![d] = Front(queue)]
    /\ pc' = [pc EXCEPT ![d] = IF Front(queue) = NoMsg THEN "d_disconnect"
                                                        ELSE "f_remove"]
    /\ UNCHANGED otherVars
    /\ UNCHANGED <<queue, mtx, ev, cancelled, once, conn, open, net, expired,
                   elem, err, nextMsg, enqueued, dequeued, sent, ran,
                   flushDials, closedTwice>>

\* flushQueue: lg.queue.Remove(elem), without lg.mtx.
flushQueue_Remove(d) ==
    /\ pc[d] = "f_remove"
    /\ queue' = Remove(queue, msg[d])
    /\ dequeued' = Append(dequeued, msg[d])
    /\ pc' = [pc EXCEPT ![d] = "wb_write"]
    /\ UNCHANGED otherVars
    /\ UNCHANGED <<mtx, ev, cancelled, once, conn, open, net, expired, msg,
                   elem, err, nextMsg, enqueued, sent, ran, flushDials,
                   closedTwice>>

\* Variant of flushQueue_Result that goes on after an error.
flushQueue_ResultContinue(d) ==
    /\ pc[d] = "wb_ret"
    /\ pc' = [pc EXCEPT ![d] = "f_front"]
    /\ msg' = [msg EXCEPT ![d] = NoMsg]
    /\ err' = [err EXCEPT ![d] = "nil"]
    /\ UNCHANGED otherVars
    /\ UNCHANGED <<queue, mtx, ev, cancelled, once, conn, open, net, expired,
                   elem, nextMsg, enqueued, dequeued, sent, ran, flushDials,
                   closedTwice>>

\* flushQueue: "if err != nil break", else the next iteration.
flushQueue_Result(d) ==
    /\ pc[d] = "wb_ret"
    /\ pc' = [pc EXCEPT ![d] = IF err[d] # "nil" THEN "d_disconnect"
                                                 ELSE "f_front"]
    /\ msg' = [msg EXCEPT ![d] = NoMsg]
    /\ err' = [err EXCEPT ![d] = "nil"]
    /\ UNCHANGED otherVars
    /\ UNCHANGED <<queue, mtx, ev, cancelled, once, conn, open, net, expired,
                   elem, nextMsg, enqueued, dequeued, sent, ran, flushDials,
                   closedTwice>>

\* flushQueue's loop around writeBytes.
flushQueue_Loop(d) ==
    \/ flushQueue_Front(d)
    \/ flushQueue_Remove(d)
    \/ flushQueue_Result(d)

flushQueue(d) ==
    \/ flushQueue_Loop(d)
    \/ writeBytes(d)

\* Destroy: lg.disconnect(); f returns, the Once is done and Destroy returns.
Destroy_Disconnect(d) ==
    /\ pc[d] = "d_disconnect"
    /\ disconnect
    /\ ran' = [ran EXCEPT !["disconnect"] = @ + 1]
    /\ once' = "done"
    /\ pc' = [pc EXCEPT ![d] = "done"]
    /\ UNCHANGED otherVars
    /\ UNCHANGED <<queue, mtx, ev, cancelled, net, expired, msg, elem, err,
                   nextMsg, enqueued, dequeued, sent, flushDials>>

\* Destroy without flushQueue's calls of writeBytes.
Destroy_Body(d) ==
    \/ Destroy_Once(d)
    \/ Destroy_OnceWait(d)
    \/ Destroy_Cancel(d)
    \/ Destroy_Wait(d)
    \/ flushQueue_Loop(d)
    \/ Destroy_Disconnect(d)

Destroy(d) ==
    \/ Destroy_Body(d)
    \/ writeBytes(d)

\* ------------------------------------------------------------- environment
\* The collector becomes reachable or unreachable.
NetChange ==
    /\ net' = IF net = "up" THEN "down" ELSE "up"
    /\ UNCHANGED otherVars
    /\ UNCHANGED <<pc, queue, mtx, ev, cancelled, once, conn, open, expired,
                   msg, elem, err, nextMsg, enqueued, dequeued, sent, ran,
                   flushDials, closedTwice>>

\* flushTimeout elapses while flushQueue runs.
Timeout ==
    /\ \E d \in Destroyers : pc[d] \in {"f_front", "f_remove", "wb_write",
                                        "wb_connect", "wb_dial", "wb_write2",
                                        "wb_ret"}
    /\ ~expired
    /\ expired' = TRUE
    /\ UNCHANGED otherVars
    /\ UNCHANGED <<pc, queue, mtx, ev, cancelled, once, conn, open, net, msg,
                   elem, err, nextMsg, enqueued, dequeued, sent, ran,
                   flushDials, closedTwice>>

Next ==
    \/ \E p \in Producers : writeString(p)
    \/ \E p \in Producers : queueMessage(p)
    \/ messengerWorker
    \/ \E d \in Destroyers : Destroy(d)
    \/ NetChange
    \/ Timeout

Spec == Init /\ [][Next]_vars

\* The engine with a collector that is never reachable: every dial fails, so
\* no connection is ever installed and the retried write is never reached.
InitDown == Init /\ net = "down"

NextDown ==
    \/ \E p \in Producers : writeString(p)
    \/ \E p \in Producers : queueMessage(p)
    \/ messengerWorker_Loop
    \/ writeBytes_Dial(Worker)
    \/ \E d \in Destroyers : Destroy_Body(d)
    \/ \E d \in Destroyers : writeBytes_Dial(d)
    \/ Timeout

\* Goroutines make progress once started: the Go runtime schedules the
\* worker, a producer inside queueMessage and a caller inside Destroy; a dial
\* ends (with a result, or with its context's error).  Whether a producer
\* makes another call and whether Destroy is called at all are left free.
Fairness ==
    /\ WF_vars(messengerWorker)
    /\ \A p \in Producers : WF_vars(queueMessage(p))
    /\ \A d \in Destroyers : WF_vars(pc[d] # "idle" /\ Destroy(d))

SpecDown == InitDown /\ [][NextDown]_vars /\ Fairness

\* ------------------------------------------- producers that never cease
\* The engine with a reachable collector and callers that log for as long as
\* the program runs.  The steps that touch a message are the ones above
\* without the record of what was enqueued, dequeued and delivered (nextMsg,
\* enqueued, dequeued and sent stay as they start), so that a run of any
\* length is a walk in a finite graph; a call takes for its message an
\* identity no queued or in-flight message has.
BusyIds == 1..(maxQueueSize + Cardinality(Producers) + 1)

InFlight == {queue[i] : i \in 1..Len(queue)} \cup {msg[q] : q \in Procs}

\* writeString, any number of times.
writeString_Busy(p) ==
    /\ pc[p] = "idle"
    /\ \E m \in BusyIds \ InFlight : msg' = [msg EXCEPT ![p] = m]
    /\ pc' = [pc EXCEPT ![p] = "q_lock"]
    /\ UNCHANGED otherVars
    /\ UNCHANGED <<queue, mtx, ev, cancelled, once, conn, open, net, expired,
                   elem, err, nextMsg, enqueued, dequeued, sent, ran,
                   flushDials, closedTwice>>

\* queueMessage: lg.queue.PushBack(msg)
queueMessage_PushBack_Busy(p) ==
    /\ pc[p] = "q_push"
    /\ queue' = PushBack(queue, msg[p])
    /\ pc' = [pc EXCEPT ![p] = "q_set"]
    /\ UNCHANGED otherVars
    /\ UNCHANGED <<mtx, ev, cancelled, once, conn, open, net, expired, msg,
                   elem, err, nextMsg, enqueued, dequeued, sent, ran,
                   flushDials, closedTwice>>

queueMessage_Busy(p) ==
    \/ queueMessage_Lock(p)
    \/ queueMessage_Front(p)
    \/ queueMessage_Remove(p)
    \/ queueMessage_PushBack_Busy(p)
    \/ queueMessage_Set(p)
    \/ queueMessage_Unlock(p)

\* dequeueMessage: Front, Remove and Unlock.
dequeueMessage_Take_Busy ==
    /\ pc[Worker] = "w_deq"
    /\ mtx' = Free
    /\ IF Front(queue) = NoMsg
       THEN /\ pc' = [pc EXCEPT ![Worker] = "select"]
            /\ UNCHANGED <<queue, msg>>
       ELSE /\ queue' = Remove(queue, Front(queue))
            /\ msg' = [msg EXCEPT ![Worker] = Front(queue)]
            /\ pc' = [pc EXCEPT ![Worker] = "wb_write"]
    /\ UNCHANGED otherVars
    /\ UNCHANGED <<ev, cancelled, once, conn, open, net, expired, elem, err,
                   nextMsg, enqueued, dequeued, sent, ran, flushDials,
                   closedTwice>>

\* writeBytes: the Write on the current connection.
writeBytes_Write_Busy(s) ==
    /\ pc[s] = "wb_write"
    /\ \/ /\ conn # NoConn /\ conn \in open          \* the write succeeds
          /\ err' = [err EXCEPT ![s] = "nil"]
          /\ pc' = [pc EXCEPT ![s] = "wb_ret"]
       \/ /\ conn # NoConn                           \* the write fails
          /\ pc' = [pc EXCEPT ![s] = "wb_connect"]
          /\ UNCHANGED err
       \/ /\ conn = NoConn                           \* not connected
          /\ pc' = [pc EXCEPT ![s] = "wb_connect"]
          /\ UNCHANGED err
    /\ UNCHANGED otherVars
    /\ UNCHANGED <<queue, mtx, ev, cancelled, once, conn, open, net, expired,
                   msg, elem, nextMsg, enqueued, dequeued, sent, ran,
                   flushDials, closedTwice>>

\* writeBytes: the retried Write, with lg.disconnect() when it fails.
writeBytes_Retry_Busy(s) ==
    /\ pc[s] = "wb_write2"
    /\ \/ /\ conn # NoConn /\ conn \in open
          /\ err' = [err EXCEPT ![s] = "nil"]
          /\ UNCHANGED <<conn, open, closedTwice>>
       \/ /\ err' = [err EXCEPT ![s] = "neterr"]
          /\ disconnect
    /\ pc' = [pc EXCEPT ![s] = "wb_ret"]
    /\ UNCHANGED otherVars
    /\ UNCHANGED <<queue, mtx, ev, cancelled, once, net, expired, msg, elem,
                   nextMsg, enqueued, dequeued, sent, ran, flushDials>>

writeBytes_Busy(s) ==
    \/ writeBytes_Write_Busy(s)
    \/ connect_Disconnect(s)
    \/ connect_Dial(s)
    \/ writeBytes_Retry_Busy(s)

messengerWorker_Busy ==
    \/ messengerWorker_Done
    \/ messengerWorker_Wake
    \/ dequeueMessage_Lock
    \/ dequeueMessage_Take_Busy
    \/ messengerWorker_Result
    \/ writeBytes_Busy(Worker)

\* Destroy up to the return of lg.wg.Wait(); a second caller waits in the Once
\* for the first, which has not returned yet.
Destroy_UntilStopped(d) ==
    \/ Destroy_Once(d)
    \/ Destroy_Cancel(d)
    \/ Destroy_Wait(d)

InitBusy == Init /\ net = "up"

NextBusy ==
    \/ \E p \in Producers : writeString_Busy(p)
    \/ \E p \in Producers : queueMessage_Busy(p)
    \/ messengerWorker_Busy
    \/ \E d \in Destroyers : Destroy_UntilStopped(d)

\* As Fairness: the worker, a producer inside queueMessage and a caller inside
\* Destroy are scheduled; whether a producer logs again is left free.  The
\* mutex is not weakly fair only: sync.Mutex hands the lock to a goroutine
\* that has waited (its starvation mode), so one that asks for the lock while
\* others take and release it gets it.
FairnessBusy ==
    /\ WF_vars(messengerWorker_Busy)
    /\ SF_vars(dequeueMessage_Lock)
    /\ \A p \in Producers : /\ WF_vars(queueMessage_Busy(p))
                            /\ SF_vars(queueMessage_Lock(p))
    /\ \A d \in Destroyers : WF_vars(pc[d] # "idle" /\ Destroy_UntilStopped(d))

SpecBusy == InitBusy /\ [][NextBusy]_vars /\ FairnessBusy

\* ---------------------------------------------------------- the formatter
\* Strings are sequences of one-character strings.  The timestamp text, the
\* host name and the application name are one token each: "T" stands for
\* the text now.Format produces, "h" for lg.hostname, "app" for lg.appName.
MaxMsgLen == 3

Chars == {"a", "\n"}

Messages == UNION {[1..n -> Chars] : n \in 0..MaxMsgLen}

severityError == 3

severityWarning == 4

severityInformational == 6

severityDebug == 7

facilityUser == 1

pid == 42

Digit(d) == <<"0", "1", "2", "3", "4", "5", "6", "7", "8", "9">>[d + 1]

\* strconv.Itoa for a non-negative integer.
RECURSIVE Itoa(_)
Itoa(n) == IF n < 10 THEN <<Digit(n)>>
           ELSE Itoa(n \div 10) \o <<Digit(n % 10)>>

\* strings.HasSuffix(s, "\n")
HasSuffix(s) == Len(s) > 0 /\ s[Len(s)] = "\n"

\* strings.TrimSuffix(s, "\n"): removes one trailing "\n" if there is one.
TrimSuffix(s) == IF HasSuffix(s) THEN SubSeq(s, 1, Len(s) - 1) ELSE s

\* Variant of Priority with the facility in the wrong bit position.
PriorityShifted(facility, severity) == (facility * 16) + severity

Priority(facility, severity) == (facility * 8) + severity

\* writeString's line-ending step.
Terminated(m) ==
    IF useTcp
    THEN IF ~HasSuffix(m) THEN m \o <<"\n">> ELSE m
    ELSE TrimSuffix(m)

\* The argument writeString passes to queueMessage.
writeString_Payload(facility, severity, m) ==
    IF ~useRFC5424
    THEN <<"<">> \o Itoa(Priority(facility, severity)) \o <<">">>
         \o <<"T", " ", "h", " ">> \o Terminated(m)
    ELSE <<"<">> \o Itoa(Priority(facility, severity)) \o <<">", "1", " ">>
         \o <<"T", " ", "h", " ", "app", " ">> \o Itoa(pid)
         \o <<" ", "-", " ", "-", " ">> \o Terminated(m)

Success(m, sendSuccessAtErrorLogLevel) ==
    /\ call' = [level |-> "Success", msg |-> m,
                asError |-> sendSuccessAtErrorLogLevel]
    /\ payload' = IF sendSuccessAtErrorLogLevel
                  THEN writeString_Payload(facilityUser, severityError, m)
                  ELSE writeString_Payload(facilityUser,
                                           severityInformational, m)
    /\ UNCHANGED <<syslogVars, fileVars, logger, fileLock, useTcp,
                   useRFC5424>>

Error(m) ==
    /\ call' = [level |-> "Error", msg |-> m, asError |-> FALSE]
    /\ payload' = writeString_Payload(facilityUser, severityError, m)
    /\ UNCHANGED <<syslogVars, fileVars, logger, fileLock, useTcp,
                   useRFC5424>>

Warning(m) ==
    /\ call' = [level |-> "Warning", msg |-> m, asError |-> FALSE]
    /\ payload' = writeString_Payload(facilityUser, severityWarning, m)
    /\ UNCHANGED <<syslogVars, fileVars, logger, fileLock, useTcp,
                   useRFC5424>>

Info(m) ==
    /\ call' = [level |-> "Info", msg |-> m, asError |-> FALSE]
    /\ payload' = writeString_Payload(facilityUser, severityInformational, m)
    /\ UNCHANGED <<syslogVars, fileVars, logger, fileLock, useTcp,
                   useRFC5424>>

Debug(m) ==
    /\ call' = [level |-> "Debug", msg |-> m, asError |-> FALSE]
    /\ payload' = writeString_Payload(facilityUser, severityDebug, m)
    /\ UNCHANGED <<syslogVars, fileVars, logger, fileLock, useTcp,
                   useRFC5424>>

\* An engine built with any transport and format option, before its first
\* per-level call; its queue and worker are left alone.
InitFormat ==
    /\ InitSyslog /\ net = "down"
    /\ useTcp \in BOOLEAN /\ useRFC5424 \in BOOLEAN
    /\ call = NoCall /\ payload = <<>>
    /\ FileUnused /\ LoggerUnused /\ LockUnused

NextFormat ==
    \/ \E m \in Messages, b \in BOOLEAN : Success(m, b)
    \/ \E m \in Messages : Error(m)
    \/ \E m \in Messages : Warning(m)
    \/ \E m \in Messages : Info(m)
    \/ \E m \in Messages : Debug(m)

SpecFormat == InitFormat /\ [][NextFormat]_vars

\* --------------------------------------------------------- the file engine
\* Times are whole days, numbered from the day the engine is built (day 1);
\* a month has DaysInMonth days, so that time.Day() repeats from month to
\* month.  Sizes are in bytes.
MaxDate == 3

DaysInMonth == 2

MaxWrites == 2

minFileSize == 10 * 1024

minFileVaultSize == 100 * 1024

newLineLen == 1

Dates == 1..MaxDate

\* len(msg) of the lines written: a short line and one longer than 10KB.
MsgLens == {6000, 11000}

\* The .log files found in the directory when the engine is built: at most
\* two, the second of one size.
OldSizes(i) == IF i = 1 THEN {50000, 92000} ELSE {50000}

OldDates == {-1, 0}

OldIndexes == {1, 2}

OldFile(i) ==
    [name : {[date |-> 0, idx |-> i]}, size : OldSizes(i), ctime : OldDates]

Directories ==
    UNION {{d \in [1..n -> UNION {OldFile(i) : i \in OldIndexes}] :
               \A i \in 1..n : d[i].name.idx = i} :
           n \in 0..Cardinality(OldIndexes)}

\* The failure, if any, of the input/output calls made during one call of
\* the engine: at most one of os.ReadDir, os.MkdirAll, os.OpenFile and the
\* two fd.WriteString calls fails.
Failures == {"none", "readdir", "mkdir", "open", "write", "newline"}

\* time.Time.Day(): the day of the month.
Day(now) == ((now - 1) % DaysInMonth) + 1

Names(files) == {files[i].name : i \in 1..Len(files)}

\* slices.SortFunc by CreatedAt on a short slice: an insertion sort.
InsertByCtime(f, sorted) ==
    LET k == Cardinality({i \in 1..Len(sorted) : sorted[i].ctime <= f.ctime})
    IN  SubSeq(sorted, 1, k) \o <<f>> \o SubSeq(sorted, k + 1, Len(sorted))

RECURSIVE SortByCtime(_)
SortByCtime(files) ==
    IF files = <<>> THEN <<>>
    ELSE InsertByCtime(files[Len(files)],
                       SortByCtime(SubSeq(files, 1, Len(files) - 1)))

\* Variant of CutOld that also cuts the files created exactly at lowestTime.
RECURSIVE CutOldInclusive(_, _, _)
CutOldInclusive(files, index, lowestTime) ==
    IF index < Len(files) /\ files[index + 1].ctime <= lowestTime
    THEN CutOldInclusive(files, index + 1, lowestTime)
    ELSE index

\* purgeFileVault: the loop that finds the cut point for old files; index
\* counts the files before the cut.
RECURSIVE CutOld(_, _, _)
CutOld(files, index, lowestTime) ==
    IF index < Len(files) /\ files[index + 1].ctime < lowestTime
    THEN CutOld(files, index + 1, lowestTime)
    ELSE index

\* purgeFileVault: the size of the files from index on.
RECURSIVE SizeFrom(_, _)
SizeFrom(files, index) ==
    IF index < Len(files)
    THEN files[index + 1].size + SizeFrom(files, index + 1)
    ELSE 0

\* purgeFileVault: the loop that makes room under the vault cap.
RECURSIVE MakeRoom(_, _, _, _)
MakeRoom(files, index, fileVaultSize, requiredMaxSize) ==
    IF index < Len(files) /\ fileVaultSize > requiredMaxSize
    THEN MakeRoom(files, index + 1, fileVaultSize - files[index + 1].size,
                  requiredMaxSize)
    ELSE [deleteUntilIndex |-> index, fileVaultSize |-> fileVaultSize]

\* purgeFileVault on the listing files at time now: the returned size, the
\* listing left on disk and the record of the run.
purgeFileVault(files, now, io) ==
    IF daysToKeep = 0 /\ maxFileVaultSize = 0
    THEN [size |-> 0, disk |-> files,
          run |-> [ran |-> TRUE, listed |-> FALSE, failed |-> FALSE,
                   now |-> now, before |-> files, after |-> files,
                   size |-> 0]]
    ELSE IF io = "readdir"
    THEN [size |-> 0, disk |-> files,
          run |-> [ran |-> TRUE, listed |-> FALSE, failed |-> TRUE,
                   now |-> now, before |-> files, after |-> files,
                   size |-> 0]]
    ELSE
      LET sorted == SortByCtime(files)
          cut == IF daysToKeep > 0
                 THEN CutOld(sorted, 0, now - daysToKeep)
                 ELSE 0
          room == IF maxFileVaultSize > 0
                  THEN MakeRoom(sorted, cut, SizeFrom(sorted, cut),
                                maxFileVaultSize - minFileSize)
                  ELSE [deleteUntilIndex |-> cut,
                        fileVaultSize |-> SizeFrom(sorted, cut)]
          removed == Names(SubSeq(sorted, 1, room.deleteUntilIndex))
          kept == SelectSeq(files, LAMBDA f : f.name \notin removed)
      IN  [size |-> room.fileVaultSize, disk |-> kept,
           run |-> [ran |-> TRUE, listed |-> TRUE, failed |-> FALSE,
                    now |-> now, before |-> files, after |-> kept,
                    size |-> room.fileVaultSize]]

\* os.OpenFile(name, O_WRONLY|O_APPEND|O_CREATE): the file is created,
\* empty, unless it exists.
OpenFile(files, name, now) ==
    IF name \in Names(files) THEN files
    ELSE Append(files, [name |-> name, size |-> 0, ctime |-> now])

\* fd.WriteString of n bytes to the file called name.
WriteString(files, name, n) ==
    [i \in 1..Len(files) |->
        IF files[i].name = name
        THEN [files[i] EXCEPT !.size = @ + n]
        ELSE files[i]]

\* Variant of rotate that does not look at lg.fd.
rotate_OpenOnce(dayOfNow, msgLen) ==
    \/ dayOfNow # dayOfFile
    \/ /\ maxFileSize > 0
       /\ currentFileSize + msgLen > maxFileSize
    \/ /\ maxFileVaultSize > 0
       /\ currentFileVaultSize + msgLen > maxFileVaultSize

\* openOrRotateFile: "Check if we have to rotate files".
rotate(dayOfNow, msgLen) ==
    \/ fd = NoFile
    \/ dayOfNow # dayOfFile
    \/ /\ maxFileSize > 0
       /\ currentFileSize + msgLen > maxFileSize
    \/ /\ maxFileVaultSize > 0
       /\ currentFileVaultSize + msgLen > maxFileVaultSize

\* Variant of NextSubFileIndex that restarts at 1 at every rotation.
NextSubFileIndex_Restart(dayOfNow) ==
    IF maxFileSize > 0 THEN 1 ELSE subFileIndex

\* openOrRotateFile: lg.subFileIndex after a rotation.
NextSubFileIndex(dayOfNow) ==
    IF maxFileSize > 0
    THEN IF dayOfNow # dayOfFile THEN 1 ELSE subFileIndex + 1
    ELSE subFileIndex

\* openOrRotateFile(now, msgLen): the values of the engine's fields and the
\* directory when it returns, and whether it returns an error.
openOrRotateFile(now, msgLen, io) ==
    LET dayOfNow == Day(now)
        index == NextSubFileIndex(dayOfNow)
        purge == purgeFileVault(disk, now, io)
        name == [date |-> now, idx |-> IF maxFileSize > 0 THEN index ELSE 0]
    IN  IF ~rotate(dayOfNow, msgLen)
        THEN [err |-> FALSE, fd |-> fd, subFileIndex |-> subFileIndex,
              dayOfFile |-> dayOfFile, currentFileSize |-> currentFileSize,
              currentFileVaultSize |-> currentFileVaultSize,
              disk |-> disk, run |-> lastPurge]
        ELSE IF io \in {"mkdir", "open"}
        THEN [err |-> TRUE, fd |-> NoFile, subFileIndex |-> index,
              dayOfFile |-> dayOfFile, currentFileSize |-> 0,
              currentFileVaultSize |-> purge.size,
              disk |-> purge.disk, run |-> purge.run]
        ELSE [err |-> FALSE, fd |-> name, subFileIndex |-> index,
              dayOfFile |-> dayOfNow, currentFileSize |-> 0,
              currentFileVaultSize |-> purge.size,
              disk |-> OpenFile(purge.disk, name, now), run |-> purge.run]

\* writeRAW(now, msg) with len(msg) = msgLen, under lg.mtx from its first
\* statement to its return.
writeRAW(now, msgLen, io) ==
    /\ writes < MaxWrites
    /\ now >= clock
    /\ \E r \in {openOrRotateFile(now, msgLen + newLineLen, io)} :
       LET written == IF r.err \/ io = "write" THEN 0
                      ELSE IF io = "newline" THEN msgLen
                      ELSE msgLen + newLineLen
       IN  /\ fd' = r.fd
           /\ subFileIndex' = r.subFileIndex
           /\ dayOfFile' = r.dayOfFile
           /\ currentFileSize' = r.currentFileSize + written
           /\ currentFileVaultSize' = r.currentFileVaultSize + written
           /\ disk' = WriteString(r.disk, r.fd, written)
           /\ lastPurge' = r.run
           /\ last' = [op |-> "write", now |-> now, msgLen |-> msgLen,
                       io |-> io,
                       ok |-> ~r.err /\ io \notin {"write", "newline"}]
    /\ clock' = now
    /\ writes' = writes + 1
    /\ maxLen' = IF msgLen + newLineLen > maxLen
                 THEN msgLen + newLineLen ELSE maxLen
    /\ UNCHANGED <<syslogVars, formatVars, logger, fileLock, fileCfg>>

\* The file engine's Destroy.
file_Destroy ==
    /\ fd # NoFile
    /\ fd' = NoFile
    /\ last' = [op |-> "destroy"]
    /\ UNCHANGED <<syslogVars, formatVars, logger, fileLock, fileCfg,
                   subFileIndex, dayOfFile, currentFileSize,
                   currentFileVaultSize, disk, clock, writes, maxLen,
                   lastPurge>>

\* The file engine right after NewEngine, which has run purgeFileVault on
\* the directory it found (listing it succeeded); the limits are values
\* NewEngine can set.
InitFileFields ==
    /\ InitSyslog /\ net = "down"
    /\ FormatUnused /\ LoggerUnused
    /\ daysToKeep \in {0, 1}
    /\ maxFileSize \in {0, minFileSize}
    /\ maxFileVaultSize \in {0, minFileVaultSize}
    /\ fd = NoFile /\ subFileIndex = 0 /\ dayOfFile = -1
    /\ currentFileSize = 0
    /\ clock = 1 /\ writes = 0 /\ last = NoWrite /\ maxLen = 0
    /\ \E found \in Directories :
          LET purge == purgeFileVault(found, clock, "none")
          IN  /\ currentFileVaultSize = purge.size
              /\ disk = purge.disk
              /\ lastPurge = purge.run

InitFile == InitFileFields /\ LockUnused

NextFile ==
    \/ \E now \in Dates, n \in MsgLens, io \in Failures : writeRAW(now, n, io)
    \/ file_Destroy

SpecFile == InitFile /\ [][NextFile]_vars

\* ------------------------------------ the file engine, started once more
\* An engine built on a directory in which an earlier instance, run earlier
\* on the first day, left the file the new instance will name first.
EarlierFile ==
    [name |-> [date |-> 1, idx |-> IF maxFileSize > 0 THEN 1 ELSE 0],
     size |-> 8000, ctime |-> 1]

InitFileAgain ==
    /\ InitSyslog /\ net = "down"
    /\ FormatUnused /\ LoggerUnused /\ LockUnused
    /\ daysToKeep \in {0, 1}
    /\ maxFileSize \in {0, minFileSize}
    /\ maxFileVaultSize \in {0, minFileVaultSize}
    /\ fd = NoFile /\ subFileIndex = 0 /\ dayOfFile = -1
    /\ currentFileSize = 0
    /\ clock = 1 /\ writes = 0 /\ last = NoWrite /\ maxLen = 0
    /\ \E purge \in {purgeFileVault(<<EarlierFile>>, clock, "none")} :
          /\ currentFileVaultSize = purge.size
          /\ disk = purge.disk
          /\ lastPurge = purge.run

SpecFileAgain == InitFileAgain /\ [][NextFile]_vars

\* ----------------------------------------- the file engine, step by step
\* writeRAW and Destroy as their callers run them: each takes lg.mtx, does its
\* work one operation at a time and releases lg.mtx on return, so that what
\* the mutex excludes is excluded by the mutex and not by the size of a step.
Writers == {"w1", "w2"}

Closers == {"c1"}

FileCallers == Writers \cup Closers

NoWriteCall == [now |-> 0, msgLen |-> 0, file |-> NoFile]

At(c, pos) == [fileLock EXCEPT !.pc[c] = pos]

LockFrame == UNCHANGED <<syslogVars, formatVars, logger, fileCfg, last>>

\* Variant of writeRAW_Lock that does not wait for lg.mtx.
writeRAW_NoLock(w) ==
    /\ fileLock.pc[w] = "idle"
    /\ writes < MaxWrites
    /\ \E now \in Dates, msgLen \in MsgLens :
          /\ now >= clock
          /\ fileLock' = [fileLock EXCEPT
                             !.mtx = w, !.pc[w] = "decide",
                             !.call[w] = [now |-> now, msgLen |-> msgLen,
                                          file |-> NoFile]]
          /\ clock' = now
          /\ maxLen' = IF msgLen + newLineLen > maxLen
                       THEN msgLen + newLineLen ELSE maxLen
    /\ writes' = writes + 1
    /\ LockFrame
    /\ UNCHANGED <<fd, subFileIndex, dayOfFile, currentFileSize,
                   currentFileVaultSize, disk, lastPurge>>

\* writeRAW(now, msg): msgLen := len(msg); lg.mtx.Lock()
writeRAW_Lock(w) ==
    /\ fileLock.pc[w] = "idle"
    /\ writes < MaxWrites
    /\ fileLock.mtx = Free
    /\ \E now \in Dates, msgLen \in MsgLens :
          /\ now >= clock
          /\ fileLock' = [fileLock EXCEPT
                             !.mtx = w, !.pc[w] = "decide",
                             !.call[w] = [now |-> now, msgLen |-> msgLen,
                                          file |-> NoFile]]
          /\ clock' = now
          /\ maxLen' = IF msgLen + newLineLen > maxLen
                       THEN msgLen + newLineLen ELSE maxLen
    /\ writes' = writes + 1
    /\ LockFrame
    /\ UNCHANGED <<fd, subFileIndex, dayOfFile, currentFileSize,
                   currentFileVaultSize, disk, lastPurge>>

\* openOrRotateFile: the rotation decision; without a rotation it returns nil
\* with the open file.
writeRAW_Decide(w) ==
    /\ fileLock.pc[w] = "decide"
    /\ LET c == fileLock.call[w]
       IN  fileLock' =
              IF rotate(Day(c.now), c.msgLen + newLineLen)
              THEN At(w, "rotate")
              ELSE [fileLock EXCEPT !.pc[w] = "write", !.call[w].file = fd]
    /\ LockFrame
    /\ UNCHANGED <<fd, subFileIndex, dayOfFile, currentFileSize,
                   currentFileVaultSize, disk, clock, writes, maxLen,
                   lastPurge>>

\* openOrRotateFile after the decision to rotate: close, purge, MkdirAll and
\* OpenFile; an error ends writeRAW.
writeRAW_Rotate(w) ==
    /\ fileLock.pc[w] = "rotate"
    /\ LET c == fileLock.call[w]
       IN  \E io \in {"none", "open"} :
           \E r \in {openOrRotateFile(c.now, c.msgLen + newLineLen, io)} :
              /\ fd' = r.fd
              /\ subFileIndex' = r.subFileIndex
              /\ dayOfFile' = r.dayOfFile
              /\ currentFileSize' = r.currentFileSize
              /\ currentFileVaultSize' = r.currentFileVaultSize
              /\ disk' = r.disk
              /\ lastPurge' = r.run
              /\ fileLock' =
                    IF r.err THEN At(w, "unlock")
                    ELSE [fileLock EXCEPT !.pc[w] = "write",
                                          !.call[w].file = r.fd]
    /\ LockFrame
    /\ UNCHANGED <<clock, writes, maxLen>>

\* writeRAW: lg.fd.WriteString(msg) and the two counters.
writeRAW_WriteString(w) ==
    /\ fileLock.pc[w] = "write"
    /\ LET c == fileLock.call[w]
       IN  /\ disk' = WriteString(disk, fd, c.msgLen)
           /\ currentFileSize' = currentFileSize + c.msgLen
           /\ currentFileVaultSize' = currentFileVaultSize + c.msgLen
           /\ fileLock' =
                 [fileLock EXCEPT
                     !.pc[w] = "newline",
                     !.appended = Append(@, [by |-> w, part |-> "msg",
                                             file |-> fd])]
    /\ LockFrame
    /\ UNCHANGED <<fd, subFileIndex, dayOfFile, clock, writes, maxLen,
                   lastPurge>>

\* writeRAW: lg.fd.WriteString(newLine) and the two counters.
writeRAW_NewLine(w) ==
    /\ fileLock.pc[w] = "newline"
    /\ disk' = WriteString(disk, fd, newLineLen)
    /\ currentFileSize' = currentFileSize + newLineLen
    /\ currentFileVaultSize' = currentFileVaultSize + newLineLen
    /\ fileLock' =
          [fileLock EXCEPT
              !.pc[w] = "unlock",
              !.appended = Append(@, [by |-> w, part |-> "newline",
                                      file |-> fd])]
    /\ LockFrame
    /\ UNCHANGED <<fd, subFileIndex, dayOfFile, clock, writes, maxLen,
                   lastPurge>>

\* The deferred lg.mtx.Unlock() of writeRAW and of Destroy.
file_Unlock(c) ==
    /\ fileLock.pc[c] = "unlock"
    /\ fileLock' = [fileLock EXCEPT !.mtx = Free, !.pc[c] = "idle",
                                    !.call[c] = NoWriteCall]
    /\ LockFrame
    /\ UNCHANGED <<fd, subFileIndex, dayOfFile, currentFileSize,
                   currentFileVaultSize, disk, clock, writes, maxLen,
                   lastPurge>>

\* Destroy: lg.mtx.Lock()
file_Destroy_Lock(c) ==
    /\ fileLock.pc[c] = "idle"
    /\ fileLock.mtx = Free
    /\ fileLock' = [fileLock EXCEPT !.mtx = c, !.pc[c] = "close"]
    /\ LockFrame
    /\ UNCHANGED <<fd, subFileIndex, dayOfFile, currentFileSize,
                   currentFileVaultSize, disk, clock, writes, maxLen,
                   lastPurge>>

\* Destroy: "if lg.fd != nil { Sync; Close; lg.fd = nil }"
file_Destroy_Close(c) ==
    /\ fileLock.pc[c] = "close"
    /\ fd' = NoFile
    /\ fileLock' = At(c, "unlock")
    /\ LockFrame
    /\ UNCHANGED <<subFileIndex, dayOfFile, currentFileSize,
                   currentFileVaultSize, disk, clock, writes, maxLen,
                   lastPurge>>

\* The engine after NewEngine on an empty directory, with its callers about
\* to call.
InitFileLock ==
    /\ InitFileFields
    /\ disk = <<>>
    /\ fileLock = [mtx |-> Free,
                   pc |-> [c \in FileCallers |-> "idle"],
                   call |-> [c \in FileCallers |-> NoWriteCall],
                   appended |-> <<>>]

NextFileLock ==
    \/ \E w \in Writers :
          \/ writeRAW_Lock(w)
          \/ writeRAW_Decide(w)
          \/ writeRAW_Rotate(w)
          \/ writeRAW_WriteString(w)
          \/ writeRAW_NewLine(w)
          \/ file_Unlock(w)
    \/ \E c \in Closers :
          \/ file_Destroy_Lock(c)
          \/ file_Destroy_Close(c)
          \/ file_Unlock(c)

SpecFileLock == InitFileLock /\ [][NextFileLock]_vars

\* ------------------------------------------------ the file engine, built
\* NewEngine's arithmetic on the Options.  The 64-bit integers of the source
\* are IntBits bits wide here: an unsigned option ranges over 0..MaxUint64, a
\* signed field of the engine is at most MaxInt64.
IntBits == 24

MaxUint64 == (2 ^ IntBits) - 1

MaxInt64 == (2 ^ (IntBits - 1)) - 1

\* Option values around every threshold NewEngine compares with.
OptSizes ==
    {0, 1, minFileSize - 1, minFileSize, minFileSize + 1,
     minFileVaultSize - 1, minFileVaultSize, minFileVaultSize + 1,
     1024 * 1024, MaxInt64, MaxInt64 + 1, MaxUint64}

OptDays == {0, 1, 364, 365, 366, MaxUint64}

\* NewEngine: lg.daysToKeep
clampDaysToKeep(DaysToKeep) ==
    IF DaysToKeep < 365 THEN DaysToKeep ELSE 365

\* NewEngine: lg.maxFileSize (0 unless the option is set)
clampMaxFileSize(MaxFileSize) ==
    IF MaxFileSize > 0
    THEN IF MaxFileSize > MaxInt64 THEN MaxInt64
         ELSE IF MaxFileSize < minFileSize THEN minFileSize
         ELSE MaxFileSize
    ELSE 0

\* Variant of clampMaxFileVaultSize that does not compare with maxFileSize.
clampMaxFileVaultSize_Alone(MaxFileVaultSize, fileSize) ==
    IF MaxFileVaultSize > 0
    THEN IF MaxFileVaultSize > MaxInt64 THEN MaxInt64
         ELSE IF MaxFileVaultSize < minFileVaultSize THEN minFileVaultSize
         ELSE MaxFileVaultSize
    ELSE 0

\* NewEngine: lg.maxFileVaultSize, given the lg.maxFileSize just set
clampMaxFileVaultSize(MaxFileVaultSize, fileSize) ==
    IF MaxFileVaultSize > 0
    THEN LET size == IF MaxFileVaultSize > MaxInt64 THEN MaxInt64
                     ELSE IF MaxFileVaultSize < minFileVaultSize
                     THEN minFileVaultSize
                     ELSE MaxFileVaultSize
         IN  IF size < fileSize THEN fileSize ELSE size
    ELSE 0

\* NewEngine(opts), with opts in last; it ends with purgeFileVault, run with
\* the limits just set.
NewEngine ==
    /\ last.op = "options"
    /\ daysToKeep' = clampDaysToKeep(last.DaysToKeep)
    /\ maxFileSize' = clampMaxFileSize(last.MaxFileSize)
    /\ maxFileVaultSize' =
          clampMaxFileVaultSize(last.MaxFileVaultSize, maxFileSize')
    /\ \E files \in {disk}, now \in {clock} :
          \E purge \in {purgeFileVault(files, now, "none")'} :
             /\ currentFileVaultSize' = purge.size
             /\ disk' = purge.disk
             /\ lastPurge' = purge.run
    /\ last' = [last EXCEPT !.op = "new"]
    /\ UNCHANGED <<syslogVars, formatVars, logger, fileLock, fd,
                   subFileIndex, dayOfFile, currentFileSize, clock, writes,
                   maxLen>>

\* The engine value NewEngine starts from ("lg := &engine{...}") and the
\* Options it was called with; the directory holds no file.
InitNew ==
    /\ InitSyslog /\ net = "down"
    /\ FormatUnused /\ LoggerUnused /\ LockUnused
    /\ fd = NoFile
    /\ daysToKeep = 0 /\ maxFileSize = 0 /\ maxFileVaultSize = 0
    /\ subFileIndex = 0 /\ dayOfFile = -1
    /\ currentFileSize = 0 /\ currentFileVaultSize = 0
    /\ disk = <<>> /\ clock = 1 /\ writes = 0
    /\ maxLen = 0 /\ lastPurge = NoPurge
    /\ last \in [op : {"options"}, DaysToKeep : OptDays,
                 MaxFileSize : OptSizes, MaxFileVaultSize : OptSizes]

NextNew == NewEngine

SpecNew == InitNew /\ [][NextNew]_vars

\* ------------------------------------------- the purge and the directory
\* purgeFileVault on a directory that holds more than the engine's files:
\* sub-directories and files of other names.  A name is the sequence of its
\* characters; every entry is 60000 bytes, so that two log files exceed the
\* room a 100KB vault leaves.
EntryNames ==
    {<<"a", ".", "l", "o", "g">>, <<"b", ".", "L", "o", "G">>,
     <<"c", ".", "t", "x", "t">>, <<"l", "o", "g">>}

EntrySize == 60000

\* What the directory may hold under one name: nothing, or a file or a
\* directory created on one of the old dates.
EntriesNamed(name) ==
    {<<>>} \cup {<<e>> : e \in [name : {name}, size : {EntrySize},
                               ctime : OldDates, isDir : BOOLEAN]}

RawDirectories ==
    {a \o b \o c \o d :
        a \in EntriesNamed(<<"a", ".", "l", "o", "g">>),
        b \in EntriesNamed(<<"b", ".", "L", "o", "G">>),
        c \in EntriesNamed(<<"c", ".", "t", "x", "t">>),
        d \in EntriesNamed(<<"l", "o", "g">>)}

\* strings.ToLower on the characters in use.
ToLower(name) ==
    [i \in 1..Len(name) |->
        CASE name[i] = "L" -> "l"
          [] name[i] = "O" -> "o"
          [] name[i] = "G" -> "g"
          [] OTHER -> name[i]]

\* Variant of isLogFile that does not skip directories.
isLogFile_Any(f) ==
    /\ Len(f.name) >= 4
    /\ ToLower(SubSeq(f.name, Len(f.name) - 3, Len(f.name)))
          = <<".", "l", "o", "g">>

\* purgeFileVault: "Filter undesired files"
isLogFile(f) ==
    /\ ~f.isDir
    /\ Len(f.name) >= 4
    /\ ToLower(SubSeq(f.name, Len(f.name) - 3, Len(f.name)))
          = <<".", "l", "o", "g">>

\* purgeFileVault from os.ReadDir to the last os.Remove.
purgeFileVault_ReadDir(io) ==
    /\ last = NoWrite
    /\ \E r \in {purgeFileVault(SelectSeq(disk, isLogFile), clock, io)} :
          /\ currentFileVaultSize' = r.size
          /\ disk' = SelectSeq(disk, LAMBDA f : \/ ~isLogFile(f)
                                                \/ f.name \in Names(r.disk))
          /\ lastPurge' = r.run
    /\ last' = [op |-> "purge", io |-> io]
    /\ UNCHANGED <<syslogVars, formatVars, logger, fileLock, fileCfg, fd,
                   subFileIndex, dayOfFile, currentFileSize, clock, writes,
                   maxLen>>

\* An engine with any of the two limits, about to purge a directory.
InitPurge ==
    /\ InitSyslog /\ net = "down"
    /\ FormatUnused /\ LoggerUnused /\ LockUnused
    /\ daysToKeep \in {0, 1}
    /\ maxFileSize = 0
    /\ maxFileVaultSize \in {0, minFileVaultSize}
    /\ fd = NoFile /\ subFileIndex = 0 /\ dayOfFile = -1
    /\ currentFileSize = 0 /\ currentFileVaultSize = 0
    /\ clock = 1 /\ writes = 0 /\ last = NoWrite /\ maxLen = 0
    /\ lastPurge = NoPurge
    /\ disk \in RawDirectories

NextPurge == \E io \in {"none", "readdir"} : purgeFileVault_ReadDir(io)

SpecPurge == InitPurge /\ [][NextPurge]_vars

\* ------------------------------------------------------------- the Logger
\* The Logger's level filter in front of its engines.  Every method holds
\* lg.mtx (RLock, or Lock in SetLogLevel) from its first statement to its
\* return, so each is one step.
LogLevelQuiet == 0

LogLevelError == 1

LogLevelWarning == 2

LogLevelInfo == 3

LogLevelDebug == 4

\* The largest debug level a caller sets or logs at.
MaxDebugLevel == 2

\* LogLevel is an unsigned integer: a caller may set a level above Debug.
LogLevels == LogLevelQuiet..(LogLevelDebug + 1)

DebugLevels == 0..MaxDebugLevel

\* The kinds of value a caller passes as obj.
Objs == {"string", "struct", "*string", "*struct", "nil", "int"}

\* parseObj(obj): ok for a string, a struct and a non-nil pointer to either.
parseObj(obj) == obj \in {"string", "struct", "*string", "*struct"}

\* lg.log(obj, jsonLevel, type): the engines the message is handed to.
log(obj) == IF parseObj(obj) THEN logger.engines ELSE {}

\* The outcome of a logging call: its method, its debug level, whether obj
\* was a message, and the engines that got it.  SetLogLevel has none.
Logged(type, level, obj, to) ==
    [logger EXCEPT !.logged = type, !.level = level, !.ok = parseObj(obj),
                   !.to = to]

LoggerFrame == UNCHANGED <<syslogVars, formatVars, fileVars, fileLock>>

SetLogLevel(level, debugLevel) ==
    /\ logger' = [logger EXCEPT !.logLevel = level,
                                !.debugLogLevel = debugLevel,
                                !.logged = "none", !.level = 0,
                                !.ok = FALSE, !.to = {}]
    /\ LoggerFrame

Logger_Success(obj) ==
    /\ LET minLogLevel == IF logger.sendSuccessAtErrorLogLevel
                          THEN LogLevelError ELSE LogLevelInfo
       IN  logger' = Logged("success", 0, obj,
                            IF logger.logLevel < minLogLevel THEN {}
                            ELSE log(obj))
    /\ LoggerFrame

Logger_Error(obj) ==
    /\ logger' = Logged("error", 0, obj,
                        IF logger.logLevel < LogLevelError THEN {}
                        ELSE log(obj))
    /\ LoggerFrame

Logger_Warning(obj) ==
    /\ logger' = Logged("warning", 0, obj,
                        IF logger.logLevel < LogLevelWarning THEN {}
                        ELSE log(obj))
    /\ LoggerFrame

Logger_Info(obj) ==
    /\ logger' = Logged("info", 0, obj,
                        IF logger.logLevel < LogLevelInfo THEN {}
                        ELSE log(obj))
    /\ LoggerFrame

\* Variant of Logger_Debug that tests lg.logLevel only.
Logger_Debug_AnyLevel(level, obj) ==
    /\ logger' = Logged("debug", level, obj,
                        IF logger.logLevel < LogLevelDebug THEN {}
                        ELSE log(obj))
    /\ LoggerFrame

Logger_Debug(level, obj) ==
    /\ logger' = Logged("debug", level, obj,
                        IF \/ logger.logLevel < LogLevelDebug
                           \/ logger.debugLogLevel < level
                        THEN {}
                        ELSE log(obj))
    /\ LoggerFrame

\* Create(opts) followed by the AddEngine calls, before the first message.
InitLogger ==
    /\ InitSyslog /\ net = "down"
    /\ FormatUnused /\ FileUnused /\ LockUnused
    /\ logger \in [logged : {"none"}, level : {0}, ok : {FALSE}, to : {{}},
                   logLevel : LogLevels, debugLogLevel : DebugLevels,
                   sendSuccessAtErrorLogLevel : BOOLEAN,
                   engines : {{"console"}, {"console", "file"}}]

NextLogger ==
    \/ \E level \in LogLevels, debugLevel \in DebugLevels :
          SetLogLevel(level, debugLevel)
    \/ \E obj \in Objs : Logger_Success(obj)
    \/ \E obj \in Objs : Logger_Error(obj)
    \/ \E obj \in Objs : Logger_Warning(obj)
    \/ \E obj \in Objs : Logger_Info(obj)
    \/ \E level \in DebugLevels, obj \in Objs : Logger_Debug(level, obj)

SpecLogger == InitLogger /\ [][NextLogger]_vars

\* ------------------------------------------------------------ vocabulary
Range(q) == {q[i] : i \in 1..Len(q)}

\* Position of message m in the enqueue order (0 when it was never enqueued).
Pos(m) == IF m \in Range(enqueued)
          THEN CHOOSE i \in 1..Len(enqueued) : enqueued[i] = m
          ELSE 0

\* The last n elements of q (all of q when it is shorter).
LastN(q, n) == IF Len(q) <= n THEN q ELSE SubSeq(q, Len(q) - n + 1, Len(q))

\* No producer is between the capacity test and the insertion.
EnqueuesComplete ==
    \A p \in Producers : pc[p] \in {"idle", "q_lock", "q_set", "q_unlock"}

ProducersIdle == \A p \in Producers : pc[p] = "idle"

NetworkPcs == {"wb_write", "wb_connect", "wb_dial", "wb_write2"}

FlushPcs == {"f_front", "f_remove", "wb_write", "wb_connect", "wb_dial",
             "wb_write2", "wb_ret"}

\* Positions inside a critical section of lg.mtx; none of them can block.
CriticalPcs == {"w_deq", "q_front", "q_remove", "q_push", "q_set", "q_unlock"}

\* ------------------------------------------------------------------ claims

\* C1: after any enqueue completes, the queue length is at most maxQueueSize.
C1_QueueLengthBounded ==
    EnqueuesComplete => Len(queue) <= maxQueueSize

\* C2: after more than maxQueueSize enqueues and no dequeue, the queue holds
\* exactly the last maxQueueSize enqueued messages in enqueue order.
C2_QueueHoldsLastC ==
    (EnqueuesComplete /\ dequeued = <<>> /\ Len(enqueued) > maxQueueSize)
        => queue = LastN(enqueued, maxQueueSize)

\* C3: the successfully written messages form a subsequence of the enqueue
\* sequence: each was enqueued and they appear in enqueue order.
C3_SentInEnqueueOrder ==
    \A i \in 1..Len(sent) :
        /\ sent[i] \in Range(enqueued)
        /\ \A j \in 1..(i - 1) : Pos(sent[j]) < Pos(sent[i])

\* C3 witness: the shutdown flush has just written a message after an
\* earlier one was written, and some enqueued message was never written.
C3_Witness ==
    \E d \in Destroyers :
        /\ pc[d] = "wb_ret" /\ err[d] = "nil"
        /\ Len(sent) >= 2 /\ sent[Len(sent)] = msg[d]
        /\ Len(enqueued) > Len(sent)

\* C4: the queue lock is only ever held inside the straight-line critical
\* sections of queueMessage and dequeueMessage, never by a goroutine that is
\* dialling, writing to the network, waiting or stopped; so a producer
\* waits for nothing but such a critical section.
C4_LockNeverHeldAcrossNetwork ==
    /\ mtx # Free => pc[mtx] \in CriticalPcs
    /\ \A s \in Senders : pc[s] \in NetworkPcs => mtx # s

\* C4 witness: a producer finishes its enqueue while the worker is in a dial.
C4_Witness ==
    /\ pc[Worker] = "wb_dial"
    /\ \E p \in Producers : pc[p] = "q_unlock" /\ mtx = p

\* C5 (under SpecDown, the collector being unreachable for ever): if the
\* worker is never cancelled and the producers stop enqueueing, the queue
\* becomes empty and stays empty.
C5_QueueEventuallyEmpty ==
    ([](~cancelled) /\ <>[]ProducersIdle) => <>[](Len(queue) = 0)

\* C5 witness: with the collector down every message was dequeued, none was
\* written and the queue is empty again.
C5_Witness ==
    /\ net = "down" /\ ~cancelled /\ ProducersIdle
    /\ Len(enqueued) = MaxMsgs /\ Len(dequeued) >= 2
    /\ sent = <<>> /\ queue = <<>> /\ pc[Worker] = "select"

\* C6 (under SpecDown): every Destroy call returns, and the shutdown flush
\* makes at most one dial, bounded by its deadline, whatever the queue holds.
C6_DestroyReturns ==
    /\ [](flushDials <= 1)
    /\ \A d \in Destroyers : (pc[d] # "idle") ~> (pc[d] = "done")

\* C6 witness: Destroy has returned after one failed dial of the flush, with
\* messages still queued.
C6_Witness ==
    /\ net = "down" /\ sent = <<>> /\ conn = NoConn
    /\ \E d \in Destroyers : pc[d] = "done"
    /\ flushDials = 1 /\ Len(queue) >= 1

\* C7: however many times Destroy is called, cancel, wait, flush and
\* disconnect each run at most once (exactly once when every call has
\* returned) and no socket is closed twice.
C7_DestroyIdempotent ==
    /\ \A k \in DestroySteps : ran[k] <= 1
    /\ ~closedTwice
    /\ (\E d \in Destroyers : pc[d] = "done")
          => \A k \in DestroySteps : ran[k] = 1

\* C7 witness: two Destroy calls have returned, one of them having closed an
\* open connection.
C7_Witness ==
    /\ \A d \in Destroyers : pc[d] = "done"
    /\ sent # <<>> /\ conn = NoConn /\ open = {}
    /\ \A k \in DestroySteps : ran[k] = 1

\* C8: the flush only starts after the cancel and with the worker stopped,
\* the disconnect after the flush; once Destroy has returned the connection
\* is unset and no socket is open.
C8_DestroyOrder ==
    /\ ran["wait"] > 0 => ran["cancel"] > 0 /\ cancelled
    /\ ran["flush"] > 0 => pc[Worker] = "stopped"
    /\ ran["disconnect"] > 0 => ran["flush"] > 0
    /\ (\E d \in Destroyers : pc[d] = "done") => conn = NoConn /\ open = {}

\* C8 witness: Destroy has returned, a connection had been used, and the
\* queue is not empty.
C8_Witness ==
    /\ \E d \in Destroyers : pc[d] = "done"
    /\ sent # <<>> /\ Len(queue) > 0 /\ pc[Worker] = "stopped"

\* C9: at most one socket is open, and it is the one lg.conn holds.
C9_OneSocket ==
    /\ Cardinality(open) <= 1
    /\ \A s \in open : s = conn

\* C9 witness: a sender has just reconnected after an earlier connection
\* had delivered a message.
C9_Witness ==
    \E s \in Senders :
        pc[s] = "wb_write2" /\ Len(sent) >= 1 /\ open = {conn}

\* C10: when writeBytes returns an error the connection is unset and no
\* socket is open.
C10_ErrorLeavesNoConnection ==
    \A s \in Senders :
        (pc[s] = "wb_ret" /\ err[s] # "nil") => (conn = NoConn /\ open = {})

\* C10 witness: writeBytes returns a network error after an earlier
\* connection had delivered a message.
C10_Witness ==
    \E s \in Senders :
        pc[s] = "wb_ret" /\ err[s] = "neterr" /\ net = "up" /\ Len(sent) >= 1

\* A producer executes lg.queueAvailEv.Set() in this step.
SetStep == \E p \in Producers : pc[p] = "q_set" /\ pc'[p] = "q_unlock"

\* The worker's select returns from lg.queueAvailEv.WaitCh() in this step.
WakeStep == pc[Worker] = "select" /\ pc'[Worker] = "w_lock"

\* C11: signals coalesce.  A Set leaves the event signalled and nothing else
\* signals it; a wakeup needs the event signalled and consumes all Sets
\* issued before it at once, so that the next wait blocks (the worker can
\* take no step: neither cancelled nor signalled) until a further Set.
C11_WakeupCoalesces ==
    /\ [][SetStep => ev']_vars
    /\ [][(~ev /\ ev') => SetStep]_vars
    /\ [][WakeStep => (ev /\ ~ev')]_vars
    /\ []((pc[Worker] = "select" /\ ~ev /\ ~cancelled)
            => ~ENABLED messengerWorker)

\* C11 witness: two messages were enqueued (two Sets) before the worker
\* waited; its first wait has returned and the event is reset.
C11_Witness ==
    /\ pc[Worker] = "w_lock" /\ ~ev /\ dequeued = <<>>
    /\ Len(queue) = 2 /\ ProducersIdle

\* A goroutine is inside a queue operation: between the start of a read or
\* update of lg.queue and the end of the update it belongs to.
InQueueOp(g) ==
    pc[g] \in {"q_front", "q_remove", "q_push", "w_deq", "f_remove"}

\* C12: lg.queue is only accessed under lg.mtx, so no two goroutines are ever
\* inside a queue operation at the same time.
C12_QueueOnlyUnderLock ==
    /\ \A g \in Procs : InQueueOp(g) => mtx = g
    /\ \A g, h \in Procs : (InQueueOp(g) /\ InQueueOp(h)) => g = h

\* The queued payload starts with the characters of prefix.
StartsWith(prefix) ==
    /\ Len(payload) >= Len(prefix)
    /\ SubSeq(payload, 1, Len(prefix)) = prefix

Called == call # NoCall

\* C13: the priority is 1*8 + severity: Error 11, Warning 12, Info 14,
\* Debug 15, Success 11 when success is treated as an error and 14
\* otherwise; the queued message starts with "<priority>" in both formats.
C13_PriorityPrefix ==
    Called =>
        /\ call.level = "Error" => StartsWith(<<"<", "1", "1", ">">>)
        /\ call.level = "Warning" => StartsWith(<<"<", "1", "2", ">">>)
        /\ call.level = "Info" => StartsWith(<<"<", "1", "4", ">">>)
        /\ call.level = "Debug" => StartsWith(<<"<", "1", "5", ">">>)
        /\ (call.level = "Success" /\ call.asError)
               => StartsWith(<<"<", "1", "1", ">">>)
        /\ (call.level = "Success" /\ ~call.asError)
               => StartsWith(<<"<", "1", "4", ">">>)

\* C13 witness: a Success call treated as an error, in RFC 5424 mode, queued
\* a message that starts with "<11>1 ".
C13_Witness ==
    /\ Called /\ call.level = "Success" /\ call.asError /\ useRFC5424
    /\ StartsWith(<<"<", "1", "1", ">", "1", " ">>)

\* C14: with the TCP transport the queued payload ends in exactly one "\n",
\* whatever newlines the input message ended in.
C14_TcpEndsInOneNewline ==
    (Called /\ useTcp) =>
        /\ HasSuffix(payload)
        /\ ~HasSuffix(SubSeq(payload, 1, Len(payload) - 1))

\* C15: with the UDP transport the queued payload does not end in "\n",
\* whatever newlines the input message ended in.
C15_UdpEndsInNoNewline ==
    (Called /\ ~useTcp) => ~HasSuffix(payload)

\* The last call was a write and all of its input/output succeeded.
WriteSucceeded == last.op = "write" /\ last.ok

\* C16: with a file size cap, after every write the current file size
\* counter is at most the cap.
C16_FileSizeWithinCap ==
    (maxFileSize > 0 /\ last.op = "write")
        => currentFileSize <= maxFileSize

\* C17: with a vault cap, right after a successful write the vault size
\* counter is at most the cap.
C17_VaultSizeWithinCap ==
    (maxFileVaultSize > 0 /\ WriteSucceeded)
        => currentFileVaultSize <= maxFileVaultSize

\* The size on disk of the file called name.
RECURSIVE SizeOf(_, _)
SizeOf(files, name) ==
    IF files = <<>> THEN 0
    ELSE IF Head(files).name = name THEN Head(files).size
    ELSE SizeOf(Tail(files), name)

\* C18: with a file size cap and only lines that fit under it, a successful
\* write on the day of the open file that would take the file over the cap
\* goes to a new file of the same date whose sub-index is the previous one
\* plus one, and the prior file holds at most maxFileSize bytes.
C18_SizeRotationNextIndex ==
    [][(/\ last'.op = "write" /\ last'.ok
        /\ maxFileSize > 0 /\ maxLen' <= maxFileSize
        /\ fd # NoFile /\ clock' = fd.date
        /\ currentFileSize + last'.msgLen + newLineLen > maxFileSize)
       => /\ fd' = [date |-> fd.date, idx |-> fd.idx + 1]
          /\ currentFileSize <= maxFileSize
          /\ SizeOf(disk, fd) <= maxFileSize
          /\ SizeOf(disk', fd') = last'.msgLen + newLineLen]_vars

\* C18 witness: two short lines were written on one day; the second went to
\* the file with sub-index 2 and the file with sub-index 1 holds the first.
C18_Witness ==
    /\ WriteSucceeded /\ maxFileSize > 0 /\ maxLen <= maxFileSize
    /\ fd = [date |-> clock, idx |-> 2]
    /\ currentFileSize = last.msgLen + newLineLen
    /\ SizeOf(disk, [date |-> clock, idx |-> 1]) = currentFileSize

\* C19: after a successful write at time now the open file is the one named
\* for the date of now.
C19_OpenFileIsTodays ==
    WriteSucceeded => (fd # NoFile /\ fd.date = clock)

RECURSIVE TotalSize(_)
TotalSize(files) ==
    IF files = <<>> THEN 0 ELSE Head(files).size + TotalSize(Tail(files))

Range1(files) == {files[i] : i \in 1..Len(files)}

\* What the purge deleted, and what it kept.
Deleted == {f \in Range1(lastPurge.before) : f \notin Range1(lastPurge.after)}

Kept == Range1(lastPurge.after)

\* f was created strictly before now minus daysToKeep days.
BeforeCutoff(f) == f.ctime < lastPurge.now - daysToKeep

\* The purge of the claim, where the files in TooOld are those removed for
\* their age: they are deleted; without a vault cap the rest is kept; with
\* one, further files are deleted only while the total left exceeds the cap
\* less 10KB, until it no longer does or nothing is left; the deleted files
\* are the oldest; the returned size is the total size of the kept files.
PurgeResult(TooOld) ==
    LET required == maxFileVaultSize - (10 * 1024)
        evicted == Deleted \ TooOld
    IN  /\ Kept \subseteq Range1(lastPurge.before)
        /\ TooOld \subseteq Deleted
        /\ maxFileVaultSize = 0 => evicted = {}
        /\ maxFileVaultSize > 0 =>
              /\ TotalSize(lastPurge.after) <= required \/ Kept = {}
              /\ evicted # {} =>
                    \E g \in evicted :
                       /\ \A f \in evicted : f.ctime <= g.ctime
                       /\ TotalSize(lastPurge.after) + g.size > required
        /\ \A f \in Deleted, g \in Range1(lastPurge.before) :
              g.ctime < f.ctime => g \in Deleted
        /\ lastPurge.size = TotalSize(lastPurge.after)

Built == last.op = "new"

\* C21: NewEngine leaves a zero cap zero, raises a nonzero maxFileSize to at
\* least 10KB, raises a nonzero maxFileVaultSize to at least 100KB and to at
\* least maxFileSize, and lowers daysToKeep to at most 365; an option
\* already inside its limits is taken as it is.
C21_ClampsAtConstruction ==
    Built =>
        /\ last.MaxFileSize = 0 => maxFileSize = 0
        /\ last.MaxFileSize > 0 => maxFileSize >= 10 * 1024
        /\ (last.MaxFileSize >= 10 * 1024 /\ last.MaxFileSize <= MaxInt64)
              => maxFileSize = last.MaxFileSize
        /\ last.MaxFileVaultSize = 0 => maxFileVaultSize = 0
        /\ last.MaxFileVaultSize > 0 =>
              /\ maxFileVaultSize >= 100 * 1024
              /\ maxFileVaultSize >= maxFileSize
        /\ daysToKeep <= 365
        /\ last.DaysToKeep <= 365 => daysToKeep = last.DaysToKeep

\* C21 witness: a vault option below 100KB with a file size option above it
\* gave a vault cap equal to the file size cap, and a daysToKeep option
\* above 365 gave 365.
C21_Witness ==
    /\ Built
    /\ last.MaxFileVaultSize > 0 /\ last.MaxFileVaultSize < 100 * 1024
    /\ last.MaxFileSize > 100 * 1024 /\ last.MaxFileSize <= MaxInt64
    /\ maxFileVaultSize = last.MaxFileSize
    /\ last.DaysToKeep > 365 /\ daysToKeep = 365

\* C22: with a nonzero MaxFileVaultSize option the vault cap of the engine is
\* at least 1Mb.
C22_VaultCapAtLeast1Mb ==
    (Built /\ last.MaxFileVaultSize > 0)
        => maxFileVaultSize >= 1024 * 1024

\* Sender s leaves position from for position to in this step.
Moves(s, from, to) == pc[s] = from /\ pc'[s] = to

Leaves(s, from) == pc[s] = from /\ pc'[s] # from

Enters(s, to) == pc[s] # to /\ pc'[s] = to

\* One step of a send by s, as the claim describes writeBytes.
OneSendStep(s) ==
    \* the first write: only on a connection, success returns nil
    /\ Leaves(s, "wb_write") =>
          \/ /\ pc'[s] = "wb_ret" /\ conn # NoConn
             /\ err'[s] = "nil" /\ sent' = Append(sent, msg[s])
          \/ pc'[s] = "wb_connect" /\ sent' = sent
    \* the connection is discarded before the dial
    /\ Leaves(s, "wb_connect") => pc'[s] = "wb_dial" /\ conn' = NoConn
    \* the one dial: its error is returned, or the write is retried
    /\ Leaves(s, "wb_dial") =>
          \/ /\ pc'[s] = "wb_ret" /\ err'[s] # "nil"
             /\ sent' = sent /\ conn' = NoConn
          \/ pc'[s] = "wb_write2" /\ conn' # NoConn /\ sent' = sent
    \* the one retry: whatever it gives is returned
    /\ Leaves(s, "wb_write2") =>
          /\ pc'[s] = "wb_ret"
          /\ \/ err'[s] = "nil" /\ sent' = Append(sent, msg[s])
             \/ err'[s] # "nil" /\ sent' = sent
    \* each position of the send is entered from the one before it only
    /\ Enters(s, "wb_write") => pc[s] \in {"w_deq", "f_remove"}
    /\ Enters(s, "wb_connect") => pc[s] = "wb_write"
    /\ Enters(s, "wb_dial") => pc[s] = "wb_connect"
    /\ Enters(s, "wb_write2") => pc[s] = "wb_dial"
    /\ Enters(s, "wb_ret") => pc[s] \in {"wb_write", "wb_dial", "wb_write2"}

\* C26: one writeBytes dials at most once and writes at most twice: it writes
\* on the connection it finds; when there is none or that write fails it
\* drops the connection, dials once and, if the dial succeeds, writes once
\* more; it returns nil after a successful write and otherwise the error of
\* the dial or of the retried write.  A connection is installed only by the
\* dial and a message is delivered only by one of the two writes.
C26_OneDialTwoWrites ==
    [][/\ \A s \in Senders : OneSendStep(s)
       /\ (conn' # conn /\ conn' # NoConn) =>
             \E s \in Senders : Moves(s, "wb_dial", "wb_write2")
       /\ sent' # sent =>
             \E s \in Senders : \/ Moves(s, "wb_write", "wb_ret")
                                \/ Moves(s, "wb_write2", "wb_ret")]_vars

\* C26 witness: the first send of all found no connection, dialled once and
\* delivered its message with the retried write.
C26_Witness ==
    \E d \in Destroyers :
        /\ pc[d] = "wb_ret" /\ err[d] = "nil"
        /\ flushDials = 1
        /\ sent = <<msg[d]>>

\* C27: when a send of the worker returns an error that is not a
\* cancellation, the worker drops the message (it is neither delivered nor
\* put back), stays in its loop and goes to dequeue the next message; the
\* step touches no producer.
C27_SendFailureSwallowed ==
    [][(/\ pc[Worker] = "wb_ret"
        /\ err[Worker] \notin {"nil", "canceled"}
        /\ pc'[Worker] # "wb_ret")
          => /\ pc'[Worker] = "w_lock"
             /\ queue' = queue /\ sent' = sent
             /\ msg[Worker] \notin Range(queue')
             /\ msg[Worker] \notin Range(sent')
             /\ msg'[Worker] = NoMsg
             /\ \A p \in Producers : pc'[p] = pc[p] /\ msg'[p] = msg[p]]_vars

\* C27 witness: the worker's first send failed without delivering, and the
\* worker has dequeued the second message and is sending it.
C27_Witness ==
    /\ pc[Worker] = "wb_write"
    /\ Len(dequeued) = 2
    /\ msg[Worker] = dequeued[2]
    /\ sent = <<>>
    /\ ~cancelled

\* C28: when a send of the worker returns a cancellation error the worker
\* stops at once, leaving the queue as it is; once stopped it stays stopped,
\* holds no message and takes nothing from the queue.
C28_CancelStopsWorker ==
    [][/\ (/\ pc[Worker] = "wb_ret"
           /\ err[Worker] = "canceled"
           /\ pc'[Worker] # "wb_ret")
             => /\ pc'[Worker] = "stopped"
                /\ queue' = queue /\ sent' = sent /\ dequeued' = dequeued
       /\ pc[Worker] = "stopped"
             => /\ pc'[Worker] = "stopped"
                /\ msg'[Worker] = NoMsg
                /\ (queue' # queue =>
                       \E q \in Producers \cup Destroyers : pc'[q] # pc[q])]_vars

\* C28 witness: a send of the worker has failed with a cancellation while
\* a message waits in the queue.
C28_Witness ==
    /\ pc[Worker] = "wb_ret"
    /\ err[Worker] = "canceled"
    /\ queue # <<>>

\* C30: in flushQueue a failed send ends the drain: the queue and the
\* delivered messages are left as they are, the failed message is in neither,
\* and Destroy goes on to disconnect; a successful send is followed by the
\* next look at the queue, and the drain ends without an error only when
\* the queue is found empty.
C30_DrainStopsAtFirstError ==
    [][\A d \in Destroyers :
          /\ (Leaves(d, "wb_ret") /\ err[d] # "nil")
                => /\ pc'[d] = "d_disconnect"
                   /\ queue' = queue /\ sent' = sent /\ dequeued' = dequeued
                   /\ msg[d] \notin Range(sent')
          /\ (Leaves(d, "wb_ret") /\ err[d] = "nil") => pc'[d] = "f_front"
          /\ Leaves(d, "f_front")
                => /\ pc'[d] = "d_disconnect" <=> queue = <<>>
                   /\ pc'[d] = "f_remove" <=> queue # <<>>
          /\ Enters(d, "d_disconnect") => pc[d] \in {"wb_ret", "f_front"}]_vars

\* C30 witness: a send of the drain has failed while a message is still
\* queued behind the one that failed.
C30_Witness ==
    \E d \in Destroyers :
        /\ pc[d] = "wb_ret" /\ err[d] # "nil"
        /\ queue # <<>>
        /\ msg[d] \notin Range(queue)

\* C29: once Destroy has cancelled the worker's context while the worker
\* runs, the worker eventually stops, whatever the producers do.
C29_CancelledWorkerStops ==
    (cancelled /\ pc[Worker] # "stopped") ~> (pc[Worker] = "stopped")

\* This step is a call of writeRAW.
WriteStep == writes' = writes + 1

\* C23: a call of writeRAW always returns, leaving the files that stay in the
\* directory no shorter than they were; a call that meets a failing MkdirAll
\* or OpenFile leaves no file open; and a call that meets no fault, whatever
\* the calls before it met, ends with a file open and its whole line appended
\* to what the file held (or alone in a file the call created).
C23_FailureNotSticky ==
    [][WriteStep =>
          /\ last'.op = "write"
          /\ \A i \in 1..Len(disk) :
                disk[i].name \in Names(disk') =>
                    SizeOf(disk', disk[i].name) >= disk[i].size
          /\ (~last'.ok /\ last'.io \in {"mkdir", "open"}) => fd' = NoFile
          /\ (~last'.ok /\ last'.io \in {"write", "newline"}) =>
                fd' # NoFile /\ fd' \in Names(disk')
          /\ last'.io = "none" =>
                /\ last'.ok
                /\ fd' # NoFile /\ fd' \in Names(disk')
                /\ \/ SizeOf(disk', fd') =
                         SizeOf(disk, fd') + last'.msgLen + newLineLen
                   \/ /\ fd' # fd
                      /\ SizeOf(disk', fd') = last'.msgLen + newLineLen]_vars

\* C23 witness: with no cap set and both calls on the same day, the second
\* call succeeded and the open file holds its line only: the first call's
\* message was lost to a fault and the second opened the file again.
C23_Witness ==
    /\ writes = 2 /\ clock = 1
    /\ daysToKeep = 0 /\ maxFileSize = 0 /\ maxFileVaultSize = 0
    /\ last.op = "write" /\ last.ok
    /\ fd # NoFile
    /\ SizeOf(disk, fd) = last.msgLen + newLineLen

\* The minimum lg.logLevel the claim gives for each method.
Needs(type) ==
    CASE type = "error" -> LogLevelError
      [] type = "warning" -> LogLevelWarning
      [] type = "info" -> LogLevelInfo
      [] type = "debug" -> LogLevelDebug
      [] type = "success" -> IF logger.sendSuccessAtErrorLogLevel
                             THEN LogLevelError ELSE LogLevelInfo

\* The level in force admits a message of this method and debug level.
Admits(type, level) ==
    /\ logger.logLevel >= Needs(type)
    /\ type = "debug" => logger.debugLogLevel >= level

\* This step is a call of one of the five logging methods.
LogStep == logger'.logged # "none" /\ logger' # logger

\* C25: a logging call hands its message to every engine when the level in
\* force at the call admits it and to none when it does not, whatever
\* SetLogLevel calls came before; the calls change neither level.  (A value
\* that is not a message, for which parseObj fails, goes to no engine.)
C25_DispatchIffAdmitted ==
    [][LogStep =>
          /\ logger'.logLevel = logger.logLevel
          /\ logger'.debugLogLevel = logger.debugLogLevel
          /\ logger'.ok =>
                IF Admits(logger'.logged, logger'.level)
                THEN logger'.to = logger.engines
                ELSE logger'.to = {}
          /\ ~logger'.ok => logger'.to = {}]_vars

\* C25 witness: at level Debug with debug level 1, a Debug(2) message went to
\* no engine (the same logger hands a Debug(1) message to its engines).
C25_Witness ==
    /\ logger.logged = "debug" /\ logger.level = 2 /\ logger.ok
    /\ logger.logLevel = LogLevelDebug /\ logger.debugLogLevel = 1
    /\ logger.to = {}
    /\ ENABLED (/\ Logger_Debug(1, "string")
                /\ logger'.to = logger.engines)

\* The positions of a caller that is inside its critical section.
InsideLock == {"decide", "rotate", "write", "newline", "close", "unlock"}

\* The fields of the engine that writeRAW and Destroy read and write.
engineFields == <<fd, subFileIndex, dayOfFile, currentFileSize,
                  currentFileVaultSize, disk>>

\* Every message in the order of the appends is a message written to an open
\* file and directly followed by the line ending of the same call.
LinesWhole(a) ==
    \A i \in 1..Len(a) :
        /\ a[i].file # NoFile
        /\ a[i].part = "msg" =>
              \/ i = Len(a) /\ fileLock.pc[a[i].by] = "newline"
              \/ /\ i < Len(a)
                 /\ a[i + 1] = [a[i] EXCEPT !.part = "newline"]
        /\ a[i].part = "newline" =>
              /\ i > 1
              /\ a[i - 1] = [a[i] EXCEPT !.part = "msg"]

EndsInDotLog(name) ==
    /\ Len(name) >= 4
    /\ name[Len(name) - 3] = "."
    /\ name[Len(name) - 2] \in {"l", "L"}
    /\ name[Len(name) - 1] \in {"o", "O"}
    /\ name[Len(name)] \in {"g", "G"}

\* C31: a purge removes from the directory only files (not directories)
\* whose name ends in ".log" in any case and leaves every other entry as it
\* was; with daysToKeep and maxFileVaultSize both zero it removes nothing and
\* returns vault size 0.
C31_PurgeOnlyLogFiles ==
    [][last'.op = "purge" =>
          /\ \A i \in 1..Len(disk) :
                \/ disk[i] \in Range1(disk')
                \/ ~disk[i].isDir /\ EndsInDotLog(disk[i].name)
          /\ Range1(disk') \subseteq Range1(disk)
          /\ (daysToKeep = 0 /\ maxFileVaultSize = 0) =>
                disk' = disk /\ currentFileVaultSize' = 0]_vars

\* C31 witness: a purge has removed a log file and left in place a directory
\* whose name ends in ".log" and a file of another name, both as old.
C31_Witness ==
    /\ last.op = "purge"
    /\ \E f \in Range1(lastPurge.before) : f \notin Range1(disk)
    /\ \E f \in Range1(disk) :
          f.isDir /\ EndsInDotLog(f.name) /\ f.ctime = -1
    /\ \E f \in Range1(disk) :
          ~f.isDir /\ ~EndsInDotLog(f.name) /\ f.ctime = -1

\* The worker is blocked in its select with a message in the queue.
WaitingWithWork == pc[Worker] = "select" /\ queue # <<>>

Queued(m) == m \in Range(queue)

Delivered(m) == m \in Range(sent)

BeingSent(m) ==
    /\ ~Delivered(m)
    /\ \E s \in Senders : msg[s] = m /\ pc[s] \in NetworkPcs \cup {"wb_ret"}

\* Taken from the queue for sending, and neither delivered nor being sent.
Dropped(m) == m \in Range(dequeued) /\ ~Delivered(m) /\ ~BeingSent(m)

\* Removed from the queue by a producer that found it full.
Evicted(m) ==
    m \in Range(enqueued) /\ ~Queued(m) /\ m \notin Range(dequeued)

Occurrences(q, m) == Cardinality({i \in 1..Len(q) : q[i] = m})

\* Every enqueued message is in one place only, taken for sending at most
\* once and delivered at most once, and nothing else is delivered.
Conserved ==
    /\ \A m \in Range(enqueued) :
          /\ Occurrences(queue, m) + Occurrences(dequeued, m) <= 1
          /\ Occurrences(sent, m) <= 1
          /\ Cardinality({c \in {"queued", "inflight", "sent", "evicted",
                                 "dropped"} :
                CASE c = "queued" -> Queued(m)
                  [] c = "inflight" -> BeingSent(m)
                  [] c = "sent" -> Delivered(m)
                  [] c = "evicted" -> Evicted(m)
                  [] c = "dropped" -> Dropped(m)}) = 1
    /\ Range(sent) \subseteq Range(dequeued)
    /\ Range(dequeued) \subseteq Range(enqueued)
    /\ Range(queue) \subseteq Range(enqueued)

\* C33: at every step each enqueued message is in exactly one of queued, in
\* flight, delivered, evicted by overflow and dropped after a failed send; a
\* message that was delivered, evicted or dropped stays so; no message is
\* delivered twice and none that was not enqueued.
C33_MessageConservation ==
    [][/\ Conserved'
       /\ \A m \in Range(enqueued) :
             /\ Delivered(m) => Delivered(m)'
             /\ Evicted(m) => Evicted(m)'
             /\ Dropped(m) => Dropped(m)']_vars

\* C34: while a file is open lg.currentFileSize is the size of that file on
\* disk, and with a file size cap and only lines that fit under it no file
\* the engine writes is longer than the cap.
C34_CounterIsFileSize ==
    /\ fd # NoFile => currentFileSize = SizeOf(disk, fd)
    /\ (maxFileSize > 0 /\ maxLen <= maxFileSize) =>
          \A i \in 1..Len(disk) :
              disk[i].name.date >= 1 => disk[i].size <= maxFileSize

====
